---- MODULE Spec2Model ----
(***************************************************************************)
(* A model of the LiveUpdate reconciler                                    *)
(* (internal/controllers/core/liveupdate/reconciler.go).                   *)
(*                                                                         *)
(* The API server's objects (LiveUpdate, FileWatch, ImageMap,              *)
(* KubernetesDiscovery, KubernetesApply, DockerComposeService, the         *)
(* trigger-queue ConfigMap) are the environment; Reconcile is one atomic   *)
(* action, because the whole body runs under Reconciler.mu.                *)
(*                                                                         *)
(* Times are small integers; 0 is the zero time (IsZero).  A nil pointer   *)
(* is the record Nil; an object the client cannot find is Absent.          *)
(***************************************************************************)
EXTENDS Integers, Sequences, FiniteSets, TLC

\* ------------------------------------------------------------------ bounds

\* Event and build-start times range over 1..MaxTime.
MaxTime == 3
\* The number of file events held by all FileWatch objects together.
MaxEvents == 2

\* ------------------------------------------------------------- basic values

Nil == [nil |-> TRUE]
Absent == [absent |-> TRUE]
\* What client.Get gives when it fails with an error that is not NotFound.
Errored == [error |-> TRUE]

\* Reconciler.startedTime, taken once at construction.
StartedTime == 1

Times == 1..MaxTime

LUNames == {"lu"}
FWNames == {"fw1", "fw2"}
DiscoveryName == "kd"
ApplyName == "ka"
ImageMapName == "im"
ServiceName == "svc"
TriggerQueueName == "trigger-queue"
ManifestName == "fe"
Namespace == "default"

\* Local paths, as sequences of path components.
MainGo == <<"src", "main.go">>
StopTxt == <<"src", "stop.txt">>
Dockerfile == <<"Dockerfile">>
Files == {MainGo, StopTxt, Dockerfile}

Max(a, b) == IF a >= b THEN a ELSE b

\* The elements of a sequence.
Range(s) == {s[i] : i \in DOMAIN s}

\* ---------------------------------------------------------------- the specs

Source(fwn, imn) == [fileWatch |-> fwn, imageMap |-> imn]

KubernetesSelector == [discoveryName |-> DiscoveryName, applyName |-> "", imageMapName |-> ""]
KubernetesApplySelector == [discoveryName |-> DiscoveryName, applyName |-> ApplyName, imageMapName |-> ""]
DockerComposeSelector == [service |-> ServiceName]

LiveUpdateSpec(k8s, dc, sources, restart) ==
    [selector |-> [kubernetes |-> k8s, dockerCompose |-> dc],
     sources |-> sources,
     syncs |-> <<[localPath |-> <<"src">>, containerPath |-> <<"app", "src">>]>>,
     stopPaths |-> {StopTxt, Dockerfile},
     restart |-> restart]

\* One FileWatch with its ImageMap.
SpecOne == LiveUpdateSpec(KubernetesSelector, Nil, <<Source("fw1", ImageMapName)>>, FALSE)
\* A second FileWatch with no ImageMap.
SpecTwo == LiveUpdateSpec(KubernetesSelector, Nil,
                          <<Source("fw1", ImageMapName), Source("fw2", "")>>, FALSE)

SourceSpecs == {SpecOne, SpecTwo}

NoStatus == [failed |-> Nil, containers |-> <<>>]

VARIABLES
    liveUpdates,    \* name -> Absent or [spec, annotations, deletionTimestamp, status]
    fileWatches,    \* name -> Absent or [fileEvents]
    imageMaps,      \* name -> Absent or [buildStartTime]
    discovery,      \* Absent or [pods]: the KubernetesDiscovery "kd"
    apply,          \* Absent or [lastApplyStartTime]: the KubernetesApply "ka"
    service,        \* Absent or the DockerComposeService "svc"
    triggerQueue,   \* Absent or [data]: the trigger-queue ConfigMap
    clock,          \* what apis.NowMicro() returns
    monitors,       \* Reconciler.monitors: name -> Nil or monitor
    pass,           \* what the last Reconcile did (for the properties)
    synced,         \* history: the container keys updated with the file events as they stand
    everSynced,     \* history: container key -> the latest time ever synced to it
    faulty,         \* the name of the object whose client.Get fails with an error, or ""
    mu,             \* Reconciler.mu: the goroutine that holds it, or ""
    pc,             \* goroutine -> where it is in Reconcile or enqueueTriggerQueue
    collected       \* history: what the file-change GC of the last pass took and left

vars == <<liveUpdates, fileWatches, imageMaps, discovery, apply, service,
          triggerQueue, clock, monitors, pass, synced, everSynced,
          faulty, mu, pc, collected>>

\* The variables only some specifications use.
sideVars == <<faulty, mu, pc, collected>>

apiVars == <<liveUpdates, fileWatches, imageMaps, discovery, apply, service, triggerQueue>>

\* ------------------------------------------------------------ the API client

\* client.Get of a FileWatch: Absent when there is none of that name.
\* client.Get fails for the faulty object, whether or not it exists.
Get(name, obj) == IF faulty = name THEN Errored ELSE obj

GetLiveUpdate(name) ==
    Get(name, IF name \in DOMAIN liveUpdates THEN liveUpdates[name] ELSE Absent)
GetFileWatch(name) ==
    Get(name, IF name \in DOMAIN fileWatches THEN fileWatches[name] ELSE Absent)
GetImageMap(name) ==
    Get(name, IF name \in DOMAIN imageMaps THEN imageMaps[name] ELSE Absent)
GetKubernetesDiscovery(name) == Get(name, IF name = DiscoveryName THEN discovery ELSE Absent)
GetKubernetesApply(name) == Get(name, IF name = ApplyName THEN apply ELSE Absent)
GetDockerComposeService(name) == Get(name, IF name = ServiceName THEN service ELSE Absent)
\* configmap.TriggerQueue
GetTriggerQueue == Get(TriggerQueueName, triggerQueue)

\* The error of a client.Get: "" when it found the object.
GetError(obj) ==
    IF obj = Absent THEN "NotFound" ELSE IF obj = Errored THEN "error" ELSE ""

\* --------------------------------------------------------------- the monitor

NoMessage == [text |-> "", pod |-> "", files |-> {}]
Message(text, pod, files) == [text |-> text, pod |-> pod, files |-> files]

\* The zero monitorContainerStatus.
NoContainerStatus ==
    [lastFileTimeSynced |-> 0, failedReason |-> "", failedMessage |-> NoMessage,
     failedLowWaterMark |-> 0]

\* A map with no keys.
EmptyMap == [x \in {} |-> 0]

NewMonitorSource == [modTimeByPath |-> EmptyMap, lastFileEvent |-> Nil, lastImageStatus |-> Nil]

NewMonitor(obj) ==
    [manifestName |-> obj.annotations.manifest,
     spec |-> obj.spec,
     sources |-> EmptyMap,
     containers |-> EmptyMap,
     lastKubernetesDiscovery |-> Nil,
     lastKubernetesApplyStatus |-> Nil,
     lastImageMap |-> Nil,
     lastDockerComposeService |-> Nil,
     lastTriggerQueue |-> Nil,
     hasChangesToSync |-> FALSE]

\* A monitor that takes the new spec and keeps its accumulated state.
ensureMonitorExistsKeeping(name, obj) ==
    IF monitors[name] # Nil
    THEN [monitors[name] EXCEPT !.spec = obj.spec]
    ELSE NewMonitor(obj)

\* The monitor of the live update; a fresh one when there is none or when the
\* spec differs from the one the monitor was made for.
ensureMonitorExists(name, obj) ==
    IF monitors[name] # Nil /\ obj.spec = monitors[name].spec
    THEN monitors[name]
    ELSE NewMonitor(obj)

\* A failed state that always takes the current time.
createFailedStateFresh(obj, reason, msg) ==
    [reason |-> reason, message |-> msg, lastTransitionTime |-> clock]

\* Create a failed state, keeping the transition time when the reason is the
\* stored one.
createFailedState(obj, reason, msg) ==
    [reason |-> reason,
     message |-> msg,
     lastTransitionTime |->
        IF obj.status.failed # Nil /\ obj.status.failed.reason = reason
        THEN obj.status.failed.lastTransitionTime
        ELSE clock]

\* Nil when the selector is valid, else the Invalid state.
ensureSelectorValid(lu) ==
    LET selector == lu.spec.selector IN
    IF selector.kubernetes # Nil
    THEN IF selector.kubernetes.discoveryName = ""
         THEN createFailedState(lu, "Invalid",
                  Message("Kubernetes selector requires DiscoveryName", "", {}))
         ELSE Nil
    ELSE IF selector.dockerCompose # Nil
    THEN IF selector.dockerCompose.service = ""
         THEN createFailedState(lu, "Invalid",
                  Message("DockerCompose selector requires Service", "", {}))
         ELSE Nil
    ELSE createFailedState(lu, "Invalid", Message("No valid selector", "", {}))

\* ---------------------------------------------------------- refreshing inputs

\* An event is skipped when the image build started after it.
SkipEvent(buildStartTime, eventTime) ==
    buildStartTime # 0 /\ buildStartTime > eventTime

\* An upsert that writes the time of every event it sees.
UpsertEventLast(modTimeByPath, event) ==
    [f \in DOMAIN modTimeByPath \cup event.seenFiles |->
        IF f \in event.seenFiles THEN event.time ELSE modTimeByPath[f]]

\* One event's files written into modTimeByPath: a file is (re)written only
\* when it is new or its recorded time is before the event's.
UpsertEvent(modTimeByPath, event) ==
    [f \in DOMAIN modTimeByPath \cup event.seenFiles |->
        IF f \in event.seenFiles
           /\ (f \notin DOMAIN modTimeByPath \/ modTimeByPath[f] < event.time)
        THEN event.time
        ELSE modTimeByPath[f]]

RECURSIVE ConsumeEvents(_, _, _)
ConsumeEvents(modTimeByPath, events, buildStartTime) ==
    IF events = <<>> THEN modTimeByPath
    ELSE ConsumeEvents(
            IF SkipEvent(buildStartTime, Head(events).time)
            THEN modTimeByPath
            ELSE UpsertEvent(modTimeByPath, Head(events)),
            Tail(events), buildStartTime)

StepResult(err, changed, monitor) == [err |-> err, changed |-> changed, monitor |-> monitor]

\* Consume one Source object.
reconcileOneSource(monitor, source) ==
    LET fwn == source.fileWatch
        imn == source.imageMap
        fw == IF fwn # "" THEN GetFileWatch(fwn) ELSE [status |-> [fileEvents |-> <<>>]]
        im == IF imn # "" THEN GetImageMap(imn) ELSE [status |-> [buildStartTime |-> 0]]
    IN
    IF GetError(fw) # "" THEN StepResult(GetError(fw), FALSE, monitor)
    ELSE IF GetError(im) # "" THEN StepResult(GetError(im), FALSE, monitor)
    ELSE
    LET events == fw.status.fileEvents IN
    IF Len(events) = 0 \/ fwn = "" THEN StepResult("", FALSE, monitor)
    ELSE
    LET mSource == IF fwn \in DOMAIN monitor.sources
                   THEN monitor.sources[fwn] ELSE NewMonitorSource
        newImageStatus == im.status
        imageChanged == imn # "" /\ (mSource.lastImageStatus = Nil
                                     \/ newImageStatus # mSource.lastImageStatus)
        newLastFileEvent == events[Len(events)]
        fileWatchChanged == mSource.lastFileEvent = Nil
                            \/ newLastFileEvent # mSource.lastFileEvent
        newSource ==
            [modTimeByPath |->
                IF fileWatchChanged
                THEN ConsumeEvents(mSource.modTimeByPath, events,
                                   newImageStatus.buildStartTime)
                ELSE mSource.modTimeByPath,
             lastFileEvent |-> newLastFileEvent,
             lastImageStatus |-> IF imn # "" THEN newImageStatus
                                 ELSE mSource.lastImageStatus]
        newSources == [n \in DOMAIN monitor.sources \cup {fwn} |->
                          IF n = fwn THEN newSource ELSE monitor.sources[n]]
    IN StepResult("", fileWatchChanged \/ imageChanged,
                  [monitor EXCEPT !.sources = newSources])

RECURSIVE reconcileSourcesFrom(_, _, _)
reconcileSourcesFrom(monitor, sources, hasChange) ==
    IF sources = <<>> THEN StepResult("", hasChange, monitor)
    ELSE LET one == reconcileOneSource(monitor, Head(sources)) IN
         IF one.err # "" THEN StepResult(one.err, FALSE, one.monitor)
         ELSE reconcileSourcesFrom(one.monitor, Tail(sources), hasChange \/ one.changed)

\* Consume all FileEvents off the FileWatch objects.
reconcileSources(monitor) ==
    IF Len(monitor.spec.sources) = 0 THEN StepResult("", FALSE, monitor)
    ELSE reconcileSourcesFrom(monitor, monitor.spec.sources, FALSE)

\* Consume all objects off the KubernetesSelector.
reconcileKubernetesResource(monitor) ==
    LET selector == monitor.spec.selector.kubernetes IN
    IF selector = Nil THEN StepResult("", FALSE, monitor)
    ELSE
    LET ka == IF selector.applyName # "" THEN GetKubernetesApply(selector.applyName) ELSE Nil
        kd == GetKubernetesDiscovery(selector.discoveryName)
        im == IF selector.imageMapName # "" THEN GetImageMap(selector.imageMapName) ELSE Nil
    IN
    IF GetError(ka) # "" THEN StepResult(GetError(ka), FALSE, monitor)
    ELSE IF GetError(kd) # "" THEN StepResult(GetError(kd), FALSE, monitor)
    ELSE IF GetError(im) # "" THEN StepResult(GetError(im), FALSE, monitor)
    ELSE
    LET applyChanged == ka # Nil /\ (monitor.lastKubernetesApplyStatus = Nil
                                     \/ monitor.lastKubernetesApplyStatus # ka.status)
        imageChanged == im # Nil /\ (monitor.lastImageMap = Nil \/ monitor.lastImageMap # im)
        discoveryChanged == monitor.lastKubernetesDiscovery = Nil
                            \/ monitor.lastKubernetesDiscovery.status # kd.status
    IN StepResult("", applyChanged \/ imageChanged \/ discoveryChanged,
                  [monitor EXCEPT !.lastKubernetesApplyStatus = IF ka = Nil THEN Nil ELSE ka.status,
                                  !.lastKubernetesDiscovery = kd,
                                  !.lastImageMap = im])

\* Consume all objects off the DockerComposeSelector.
reconcileDockerComposeService(monitor) ==
    LET selector == monitor.spec.selector.dockerCompose IN
    IF selector = Nil THEN StepResult("", FALSE, monitor)
    ELSE
    LET dcs == GetDockerComposeService(selector.service) IN
    IF GetError(dcs) # "" THEN StepResult(GetError(dcs), FALSE, monitor)
    ELSE StepResult("", monitor.lastDockerComposeService = Nil
                        \/ monitor.lastDockerComposeService.status # dcs.status,
                    [monitor EXCEPT !.lastDockerComposeService = dcs])

\* client.IgnoreNotFound
IgnoreNotFound(err) == IF err = "NotFound" THEN "" ELSE err

\* A trigger queue whose absence is an error like any other.
reconcileTriggerQueueStrict(monitor) ==
    LET queue == GetTriggerQueue IN
    IF GetError(queue) # "" THEN StepResult(GetError(queue), FALSE, monitor)
    ELSE IF monitor.lastTriggerQueue # Nil /\ queue.data = monitor.lastTriggerQueue.data
    THEN StepResult("", FALSE, monitor)
    ELSE StepResult("", TRUE, [monitor EXCEPT !.lastTriggerQueue = queue])

\* Consume the TriggerQueue.  A missing ConfigMap is no error and no change.
reconcileTriggerQueue(monitor) ==
    LET queue == GetTriggerQueue IN
    IF GetError(queue) # "" THEN StepResult(IgnoreNotFound(GetError(queue)), FALSE, monitor)
    ELSE IF monitor.lastTriggerQueue # Nil /\ queue.data = monitor.lastTriggerQueue.data
    THEN StepResult("", FALSE, monitor)
    ELSE StepResult("", TRUE, [monitor EXCEPT !.lastTriggerQueue = queue])


\* ------------------------------------------------------ the resource adapter

\* The luResource of the live update: the Kubernetes one when the Kubernetes
\* selector is set, else the Docker Compose one.
resource(lu, monitor) ==
    IF lu.spec.selector.kubernetes # Nil
    THEN [kind |-> "k8s",
          pods |-> monitor.lastKubernetesDiscovery.status.pods,
          applyStatus |-> monitor.lastKubernetesApplyStatus,
          im |-> monitor.lastImageMap]
    ELSE IF lu.spec.selector.dockerCompose # Nil
    THEN IF monitor.lastDockerComposeService = Nil THEN Nil
         ELSE [kind |-> "dc", res |-> monitor.lastDockerComposeService]
    ELSE Nil

Selected(pod, c) == [pod |-> pod, container |-> c]

RECURSIVE PodContainers(_)
PodContainers(pods) ==
    IF pods = <<>> THEN <<>>
    ELSE [i \in DOMAIN Head(pods).containers |->
             Selected(Head(pods), Head(pods).containers[i])]
         \o PodContainers(Tail(pods))

\* The (pod, container) pairs visitSelectedContainers visits, in order.
SelectedContainers(res) ==
    IF res.kind = "k8s" THEN PodContainers(res.pods)
    ELSE <<Selected([name |-> "", namespace |-> "", phase |-> "", createdAt |-> 0],
                    res.res.status.container)>>

RECURSIVE OldestPod(_, _)
OldestPod(pods, startTime) ==
    IF pods = <<>> THEN startTime
    ELSE OldestPod(Tail(pods),
                   IF startTime = 0
                      \/ (Head(pods).createdAt # 0 /\ Head(pods).createdAt < startTime)
                   THEN Head(pods).createdAt ELSE startTime)

\* The start of the current build: the selector ImageMap's build start, else
\* the apply start time, else the oldest selected pod's start time.
bestStartTime(res) ==
    IF res.kind = "k8s"
    THEN IF res.im # Nil /\ res.im.status.buildStartTime # 0
         THEN res.im.status.buildStartTime
         ELSE IF res.applyStatus # Nil THEN res.applyStatus.lastApplyStartTime
         ELSE OldestPod(res.pods, 0)
    ELSE res.res.status.startedAt

\* ------------------------------------------------------- garbage collection

\* An entry is dropped when the build started after it.
\* A collector that keeps every recorded file time.
GcPrunesNever(gcTime, t) == FALSE

GcPrunes(gcTime, t) == gcTime > t

\* A collector that also clears the memos whose low-water mark is the build
\* start.
GcClearsFailureAtMark(gcTime, c) ==
    c.failedLowWaterMark # 0 /\ gcTime >= c.failedLowWaterMark

\* A failure memo is cleared when the build started after its low-water mark.
GcClearsFailure(gcTime, c) ==
    c.failedLowWaterMark # 0 /\ gcTime > c.failedLowWaterMark

GcTime(res, mSource) ==
    IF mSource.lastImageStatus # Nil /\ mSource.lastImageStatus.buildStartTime # 0
    THEN mSource.lastImageStatus.buildStartTime
    ELSE bestStartTime(res)

GcSource(mSource, gcTime) ==
    [mSource EXCEPT !.modTimeByPath =
        [f \in {g \in DOMAIN mSource.modTimeByPath :
                    ~GcPrunes(gcTime, mSource.modTimeByPath[g])} |->
            mSource.modTimeByPath[f]]]

GcFailures(containers, gcTime) ==
    [key \in DOMAIN containers |->
        IF GcClearsFailure(gcTime, containers[key])
        THEN [containers[key] EXCEPT !.failedLowWaterMark = 0,
                                     !.failedReason = "",
                                     !.failedMessage = NoMessage]
        ELSE containers[key]]

RECURSIVE garbageCollectFrom(_, _, _)
garbageCollectFrom(res, monitor, sources) ==
    IF sources = <<>> THEN monitor
    ELSE
    LET fwn == Head(sources).fileWatch IN
    IF fwn \notin DOMAIN monitor.sources
    THEN garbageCollectFrom(res, monitor, Tail(sources))
    ELSE
    LET gcTime == GcTime(res, monitor.sources[fwn]) IN
    IF gcTime = 0 THEN garbageCollectFrom(res, monitor, Tail(sources))
    ELSE garbageCollectFrom(res,
            [monitor EXCEPT !.sources[fwn] = GcSource(monitor.sources[fwn], gcTime),
                            !.containers = GcFailures(monitor.containers, gcTime)],
            Tail(sources))

\* Drop the file changes and the failures older than the current build.
garbageCollectFileChanges(res, monitor) ==
    garbageCollectFrom(res, monitor, monitor.spec.sources)

\* A collector that keeps every container monitor.
garbageCollectMonitorContainersKeeping(res, monitor) == monitor

\* Drop the container monitors of containers no longer selected.
garbageCollectMonitorContainers(res, monitor) ==
    LET sel == SelectedContainers(res)
        containerIDs == {sel[i].container.id : i \in DOMAIN sel} \ {""}
    IN [monitor EXCEPT !.containers =
          [key \in {k \in DOMAIN monitor.containers : k.containerID \in containerIDs} |->
              monitor.containers[key]]]


\* ------------------------------------------------------------ the plan builder

\* The changed files in sorted order.
PathOrder == <<Dockerfile, MainGo, StopTxt>>
SortedPaths(S) == SelectSeq(PathOrder, LAMBDA f : f \in S)

\* A path matches a sync when the sync's local root is the path or an ancestor.
IsAncestor(root, path) ==
    Len(root) <= Len(path) /\ SubSeq(path, 1, Len(root)) = root

MatchesSync(syncs, f) == \E i \in DOMAIN syncs : IsAncestor(syncs[i].localPath, f)

\* The first sync whose local root holds the file.
FirstSync(syncs, f) ==
    syncs[CHOOSE i \in DOMAIN syncs :
            /\ IsAncestor(syncs[i].localPath, f)
            /\ \A j \in 1..(i - 1) : ~IsAncestor(syncs[j].localPath, f)]

\* The container path of a synced file, by prefix substitution.
PathMapping(sync, f) ==
    [localPath |-> f,
     containerPath |-> sync.containerPath \o SubSeq(f, Len(sync.localPath) + 1, Len(f))]

NewLiveUpdatePlan(spec, filesChanged) ==
    LET matched == SelectSeq(filesChanged, LAMBDA f : MatchesSync(spec.syncs, f)) IN
    [syncPaths |-> [i \in DOMAIN matched |-> PathMapping(FirstSync(spec.syncs, matched[i]), matched[i])],
     noMatchPaths |-> SelectSeq(filesChanged, LAMBDA f : ~MatchesSync(spec.syncs, f)),
     stopPaths |-> SelectSeq(filesChanged, LAMBDA f : f \in spec.stopPaths)]

PlanFailed(reason, msg) == [reason |-> reason, message |-> msg, lastTransitionTime |-> 0]

\* A plan that lets changes to stop files through.
createLiveUpdatePlanNoStop(spec, filesChanged) ==
    LET plan == NewLiveUpdatePlan(spec, filesChanged) IN
    IF Len(plan.noMatchPaths) > 0
    THEN [plan |-> plan,
          failed |-> PlanFailed("UpdateStopped",
                        Message("Found file(s) not matching any sync", "", Range(plan.noMatchPaths)))]
    ELSE [plan |-> plan, failed |-> Nil]

\* A plan that reports stop files before the files that match no sync.
createLiveUpdatePlanStopFirst(spec, filesChanged) ==
    LET plan == NewLiveUpdatePlan(spec, filesChanged) IN
    IF Len(plan.stopPaths) # 0
    THEN [plan |-> plan,
          failed |-> PlanFailed("UpdateStopped",
                        Message("Detected change to stop file", "", {plan.stopPaths[1]}))]
    ELSE IF Len(plan.noMatchPaths) > 0
    THEN [plan |-> plan,
          failed |-> PlanFailed("UpdateStopped",
                        Message("Found file(s) not matching any sync", "", Range(plan.noMatchPaths)))]
    ELSE [plan |-> plan, failed |-> Nil]

\* The plan, and the UpdateStopped state when the plan forbids the update:
\* files that match no sync are reported before stop files.
createLiveUpdatePlan(spec, filesChanged) ==
    LET plan == NewLiveUpdatePlan(spec, filesChanged) IN
    IF Len(plan.noMatchPaths) > 0
    THEN [plan |-> plan,
          failed |-> PlanFailed("UpdateStopped",
                        Message("Found file(s) not matching any sync", "", Range(plan.noMatchPaths)))]
    ELSE IF Len(plan.stopPaths) # 0
    THEN [plan |-> plan,
          failed |-> PlanFailed("UpdateStopped",
                        Message("Detected change to stop file", "", {plan.stopPaths[1]}))]
    ELSE [plan |-> plan, failed |-> Nil]

\* ------------------------------------------------------------- applyInternal

\* What ContainerUpdater.UpdateContainer returns: nil, a RunStepFailure, or
\* another error.
Outcomes == {"ok", "RunStepFailure", "error"}

UpdateCall(cInfo, input, hotReload, outcome) ==
    [type |-> "UpdateContainer",
     containerID |-> cInfo.containerID,
     podName |-> cInfo.podID,
     namespace |-> cInfo.namespace,
     paths |-> input.changedFiles,
     hotReload |-> hotReload,
     result |-> outcome]

ApplyResult(status, calls) == [status |-> status, calls |-> calls]

RECURSIVE applyContainers(_, _, _, _, _, _)
applyContainers(containers, input, hotReload, out, result, lastExecErrorStatus) ==
    IF containers = <<>> THEN result
    ELSE
    LET cInfo == Head(containers)
        outcome == out[cInfo.containerID]
        calls == Append(result.calls, UpdateCall(cInfo, input, hotReload, outcome))
        lastFileTimeSynced == IF input.lastFileTimeSynced = 0 THEN clock
                              ELSE input.lastFileTimeSynced
        cStatus == [containerName |-> cInfo.containerName,
                    containerID |-> cInfo.containerID,
                    podName |-> cInfo.podID,
                    namespace |-> cInfo.namespace,
                    lastFileTimeSynced |-> lastFileTimeSynced,
                    lastExecError |-> IF outcome = "RunStepFailure" THEN "run step failed" ELSE "",
                    waiting |-> Nil]
    IN
    IF outcome = "error"
    THEN ApplyResult([result.status EXCEPT !.failed =
                        PlanFailed("UpdateFailed",
                            IF cStatus.podName # ""
                            THEN Message("Updating pod", cStatus.podName, {})
                            ELSE Message("Updating container", cInfo.containerID, {}))],
                     calls)
    ELSE IF outcome = "ok" /\ lastExecErrorStatus # Nil
    THEN ApplyResult([result.status EXCEPT !.failed =
                        PlanFailed("PodsInconsistent",
                            Message("Pods in inconsistent state", cStatus.podName, {}))],
                     calls)
    ELSE applyContainers(Tail(containers), input, hotReload, out,
            ApplyResult([result.status EXCEPT !.containers = Append(@, cStatus)], calls),
            IF outcome = "RunStepFailure" THEN cStatus ELSE lastExecErrorStatus)

\* hotReload with the sense of restart inverted.
HotReloadOnRestart(spec) == spec.restart

\* hotReload: the container is restarted only when the spec asks for it.
HotReload(spec) == ~spec.restart

\* An apply that takes a failed run step for a failed update.
applyInternalStrict(spec, input, out) ==
    LET applied == applyContainers(input.containers, input, HotReload(spec), out,
                                   ApplyResult(NoStatus, <<>>), Nil)
    IN IF \E i \in DOMAIN applied.calls : applied.calls[i].result = "RunStepFailure"
       THEN ApplyResult([failed |-> PlanFailed("UpdateFailed", Message("Updating pod", "", {})),
                         containers |-> <<>>], applied.calls)
       ELSE applied

\* Apply the input to its containers, one after the other.
applyInternal(spec, input, out) ==
    applyContainers(input.containers, input, HotReload(spec), out,
                    ApplyResult(NoStatus, <<>>), Nil)


\* ----------------------------------------------------------------- maybeSync

monitorContainerKey(pod, c) ==
    [containerID |-> c.id, podName |-> pod.name, namespace |-> pod.namespace]

\* A pre-check that finds no memo.
PreCheckForgiving(lu, containers, sel) == Nil

\* The first selected container with a failure memo makes the live update
\* failed; Nil when there is none.
RECURSIVE PreCheck(_, _, _)
PreCheck(lu, containers, sel) ==
    IF sel = <<>> THEN Nil
    ELSE LET cKey == monitorContainerKey(Head(sel).pod, Head(sel).container) IN
         IF cKey \in DOMAIN containers /\ containers[cKey].failedReason # ""
         THEN createFailedState(lu, containers[cKey].failedReason,
                                containers[cKey].failedMessage)
         ELSE PreCheck(lu, containers, Tail(sel))

\* A high-water mark that starts from the zero time.
HighWaterMarkFromZero(containers, cKey) ==
    IF cKey \in DOMAIN containers THEN containers[cKey].lastFileTimeSynced ELSE 0

\* Where a container's pending files start: its last synced time, or the
\* reconciler's start time when it has none.
HighWaterMark(containers, cKey) ==
    IF cKey \in DOMAIN containers /\ containers[cKey].lastFileTimeSynced # 0
    THEN containers[cKey].lastFileTimeSynced
    ELSE StartedTime

\* A recorded file is pending when its time is after the high-water mark.
\* A file time equal to the high-water mark counted as pending.
IsPendingInclusive(t, highWaterMark) == t >= highWaterMark

IsPending(t, highWaterMark) == t > highWaterMark

\* The (file, time, source) entries of all sources that are pending.
PendingEntries(sources, highWaterMark) ==
    {e \in UNION {{<<f, sources[s].modTimeByPath[f], s>> : f \in DOMAIN sources[s].modTimeByPath} :
                    s \in DOMAIN sources} :
        IsPending(e[2], highWaterMark)}

MinTime(S) == CHOOSE t \in S : \A u \in S : t <= u
MaxTimeOf(S) == CHOOSE t \in S : \A u \in S : t >= u

NewLowWaterMark(entries) ==
    IF entries = {} THEN 0 ELSE MinTime({e[2] : e \in entries})

NewHighWaterMark(entries, highWaterMark) ==
    MaxTimeOf({highWaterMark} \cup {e[2] : e \in entries})

IsTerminated(pod, cInfo) ==
    pod.phase = "Succeeded" \/ pod.phase = "Failed" \/ cInfo.state.terminated

Waiting(reason, message) == [reason |-> reason, message |-> message]

\* A waiting state that leaves the manual mode out.
WaitingStateNoTrigger(cInfo, isWaitingOnTrigger) ==
    IF ~cInfo.state.running \/ cInfo.id = ""
    THEN Waiting("ContainerWaiting", "Waiting for container to start")
    ELSE Nil

\* The waiting state of a container that is not terminated, Nil when it can
\* be updated.
WaitingState(cInfo, isWaitingOnTrigger) ==
    IF ~cInfo.state.running \/ cInfo.id = ""
    THEN Waiting("ContainerWaiting", "Waiting for container to start")
    ELSE IF isWaitingOnTrigger
    THEN Waiting("Trigger", "Only updates on manual trigger")
    ELSE Nil

\* The crash-loop check made only for a container that is not waiting to start.
IsCrashLoopingWhenRunning(cInfo) ==
    cInfo.state.running /\ cInfo.state.waitingReason = "CrashLoopBackOff"

IsCrashLooping(cInfo) == cInfo.state.waitingReason = "CrashLoopBackOff"

ContainerStatus(pod, cInfo, cStatus, waiting) ==
    [containerName |-> cInfo.name,
     containerID |-> cInfo.id,
     podName |-> pod.name,
     namespace |-> pod.namespace,
     lastFileTimeSynced |-> cStatus.lastFileTimeSynced,
     lastExecError |-> "",
     waiting |-> waiting]

BuildStarted(lu, filesChanged) ==
    [type |-> "BuildStarted",
     manifestName |-> lu.annotations.manifest,
     filesChanged |-> filesChanged,
     reason |-> "ChangedFiles",
     source |-> "liveupdate"]

\* The result of the first container with an exec error, "" when there is none.
RECURSIVE FirstExecError(_)
FirstExecError(containers) ==
    IF containers = <<>> THEN ""
    ELSE IF Head(containers).lastExecError # "" THEN Head(containers).lastExecError
    ELSE FirstExecError(Tail(containers))

BuildCompleted(lu, newStatus) ==
    [type |-> "BuildCompleted",
     manifestName |-> lu.annotations.manifest,
     source |-> "liveupdate",
     error |-> IF newStatus.failed # Nil THEN newStatus.failed.message.text
               ELSE FirstExecError(newStatus.containers)]

\* The decision for one container that is not terminated:
\* [status, filesApplied, decision, calls].
OneUpdate(status, filesApplied, decision, calls) ==
    [status |-> status, filesApplied |-> filesApplied, decision |-> decision, calls |-> calls]

decideContainer(lu, pod, cInfo, cStatus, filesChanged, newHighWaterMark, waiting, out) ==
    LET pf == createLiveUpdatePlan(lu.spec, filesChanged) IN
    IF pf.failed # Nil
    THEN OneUpdate([failed |-> pf.failed, containers |-> <<>>], FALSE, "planFailed", <<>>)
    ELSE IF Len(pf.plan.syncPaths) = 0
    THEN OneUpdate([failed |-> Nil,
                    containers |-> <<ContainerStatus(pod, cInfo, cStatus, waiting)>>],
                   FALSE, "noUpdate", <<>>)
    ELSE IF IsCrashLooping(cInfo)
    THEN OneUpdate([failed |-> PlanFailed("CrashLoopBackOff",
                        Message("Cannot live update because container crashing", pod.name, {})),
                    containers |-> <<>>], FALSE, "crashLoop", <<>>)
    ELSE IF waiting # Nil
    THEN OneUpdate([failed |-> Nil,
                    containers |-> <<ContainerStatus(pod, cInfo, cStatus, waiting)>>],
                   FALSE, "waiting", <<>>)
    ELSE LET applied ==
                applyInternal(lu.spec,
                    [isDC |-> lu.spec.selector.dockerCompose # Nil,
                     changedFiles |-> pf.plan.syncPaths,
                     containers |-> <<[containerID |-> cInfo.id,
                                       containerName |-> cInfo.name,
                                       podID |-> pod.name,
                                       namespace |-> pod.namespace]>>,
                     lastFileTimeSynced |-> newHighWaterMark],
                    out)
         IN OneUpdate(applied.status, TRUE, "applied", applied.calls)

\* A monitor entry rebuilt from scratch when a failure is recorded.
UpdatedContainerStatusFresh(cStatus, one, newLowWaterMark, newHighWaterMark) ==
    IF one.status.failed # Nil
    THEN [NoContainerStatus EXCEPT !.failedReason = one.status.failed.reason,
                                   !.failedMessage = one.status.failed.message,
                                   !.failedLowWaterMark = newLowWaterMark]
    ELSE IF one.filesApplied
    THEN [cStatus EXCEPT !.lastFileTimeSynced = newHighWaterMark]
    ELSE cStatus

\* A failure memo that takes the newest pending time for its low-water mark.
UpdatedContainerStatusNewest(cStatus, one, newLowWaterMark, newHighWaterMark) ==
    IF one.status.failed # Nil
    THEN [cStatus EXCEPT !.failedReason = one.status.failed.reason,
                         !.failedMessage = one.status.failed.message,
                         !.failedLowWaterMark = newHighWaterMark]
    ELSE IF one.filesApplied
    THEN [cStatus EXCEPT !.lastFileTimeSynced = newHighWaterMark]
    ELSE cStatus

\* A monitor entry whose synced time advances only when no run step failed.
UpdatedContainerStatusOnSuccess(cStatus, one, newLowWaterMark, newHighWaterMark) ==
    IF one.status.failed # Nil
    THEN [cStatus EXCEPT !.failedReason = one.status.failed.reason,
                         !.failedMessage = one.status.failed.message,
                         !.failedLowWaterMark = newLowWaterMark]
    ELSE IF one.filesApplied /\ FirstExecError(one.status.containers) = ""
    THEN [cStatus EXCEPT !.lastFileTimeSynced = newHighWaterMark]
    ELSE cStatus

\* The monitor entry after the decision: a failure is recorded with the
\* low-water mark, an applied update advances the synced time.
UpdatedContainerStatus(cStatus, one, newLowWaterMark, newHighWaterMark) ==
    IF one.status.failed # Nil
    THEN [cStatus EXCEPT !.failedReason = one.status.failed.reason,
                         !.failedMessage = one.status.failed.message,
                         !.failedLowWaterMark = newLowWaterMark]
    ELSE IF one.filesApplied
    THEN [cStatus EXCEPT !.lastFileTimeSynced = newHighWaterMark]
    ELSE cStatus

\* What the walk saw and decided for one container (for the properties).
Visit(key, pod, cInfo, highWaterMark, entries, filesChanged, decision) ==
    [key |-> key, phase |-> pod.phase, container |-> cInfo,
     highWaterMark |-> highWaterMark, entries |-> entries,
     filesChanged |-> filesChanged, decision |-> decision]

\* One call of the visitor of maybeSync's second walk.  acc carries the
\* function's locals; acc.stop is the visitor's return value.
visitContainer(lu, monitor, isWaitingOnTrigger, out, acc, pod, cInfo) ==
    LET cKey == monitorContainerKey(pod, cInfo)
        cStatus == IF cKey \in DOMAIN acc.containers THEN acc.containers[cKey]
                   ELSE NoContainerStatus
        highWaterMark == HighWaterMark(acc.containers, cKey)
        entries == PendingEntries(monitor.sources, highWaterMark)
        filesChanged == SortedPaths({e[1] : e \in entries})
        newLowWaterMark == NewLowWaterMark(entries)
        newHighWaterMark == NewHighWaterMark(entries, highWaterMark)
        hasFiles == acc.hasAnyFilesToSync \/ Len(filesChanged) > 0
    IN
    IF IsTerminated(pod, cInfo)
    THEN [acc EXCEPT !.hasAnyFilesToSync = hasFiles,
                     !.terminatedContainerPodName = IF @ = "" THEN pod.name ELSE @,
                     !.visits = Append(@, Visit(cKey, pod, cInfo, highWaterMark, entries,
                                               filesChanged, "terminated"))]
    ELSE
    LET waiting == WaitingState(cInfo, isWaitingOnTrigger)
        one == decideContainer(lu, pod, cInfo, cStatus, filesChanged, newHighWaterMark,
                               waiting, out)
        dispatch == one.filesApplied /\ ~acc.updateEventDispatched
        failed == IF one.status.failed = Nil THEN Nil
                  ELSE createFailedState(lu, one.status.failed.reason, one.status.failed.message)
        newCStatus == UpdatedContainerStatus(cStatus, one, newLowWaterMark, newHighWaterMark)
    IN [acc EXCEPT
          !.hasAnyFilesToSync = hasFiles,
          !.updateEventDispatched = @ \/ one.filesApplied,
          !.trace = @ \o (IF dispatch THEN <<BuildStarted(lu, filesChanged)>> ELSE <<>>)
                      \o one.calls,
          !.containers = [k \in DOMAIN acc.containers \cup {cKey} |->
                             IF k = cKey THEN newCStatus ELSE acc.containers[k]],
          !.status = IF failed # Nil THEN [failed |-> failed, containers |-> <<>>]
                     ELSE [@ EXCEPT !.containers = @ \o one.status.containers],
          !.stop = failed # Nil,
          !.visits = Append(@, Visit(cKey, pod, cInfo, highWaterMark, entries,
                                     filesChanged, one.decision))]

\* A walk that goes on after a failure.
RECURSIVE visitSelectedContainersAll(_, _, _, _, _, _)
visitSelectedContainersAll(lu, monitor, isWaitingOnTrigger, out, acc, sel) ==
    IF sel = <<>> THEN acc
    ELSE visitSelectedContainersAll(lu, monitor, isWaitingOnTrigger, out,
            visitContainer(lu, monitor, isWaitingOnTrigger, out, acc,
                           Head(sel).pod, Head(sel).container),
            Tail(sel))

RECURSIVE visitSelectedContainers(_, _, _, _, _, _)
visitSelectedContainers(lu, monitor, isWaitingOnTrigger, out, acc, sel) ==
    IF sel = <<>> \/ acc.stop THEN acc
    ELSE visitSelectedContainers(lu, monitor, isWaitingOnTrigger, out,
            visitContainer(lu, monitor, isWaitingOnTrigger, out, acc,
                           Head(sel).pod, Head(sel).container),
            Tail(sel))

\* A promotion made when there were no files to sync.
PromoteTerminatedWithoutFiles(lu, acc) ==
    IF acc.status.failed = Nil /\ acc.terminatedContainerPodName # ""
       /\ ~acc.hasAnyFilesToSync /\ Len(acc.status.containers) = 0
    THEN [acc.status EXCEPT !.failed =
            createFailedState(lu, "Terminated",
                Message("Container for live update is stopped", acc.terminatedContainerPodName, {}))]
    ELSE acc.status

\* The status after the walk: when only terminated containers were found and
\* there were files to sync, the live update is Terminated.
PromoteTerminated(lu, acc) ==
    IF acc.status.failed = Nil /\ acc.terminatedContainerPodName # ""
       /\ acc.hasAnyFilesToSync /\ Len(acc.status.containers) = 0
    THEN [acc.status EXCEPT !.failed =
            createFailedState(lu, "Terminated",
                Message("Container for live update is stopped", acc.terminatedContainerPodName, {}))]
    ELSE acc.status

SyncResult(status, monitor, trace, visits) ==
    [status |-> status, monitor |-> monitor, trace |-> trace, visits |-> visits]

\* An end of maybeSync that dispatches BuildCompleted only for a pass without
\* failure.
SyncWalkedQuiet(lu, gced, acc, status) ==
    SyncResult(status, [gced EXCEPT !.containers = acc.containers],
               acc.trace \o (IF acc.updateEventDispatched /\ status.failed = Nil
                             THEN <<BuildCompleted(lu, status)>> ELSE <<>>),
               acc.visits)

\* The end of maybeSync, after the walk: the status, the monitor with the
\* walk's container entries, and BuildCompleted when BuildStarted was
\* dispatched.
SyncWalked(lu, gced, acc, status) ==
    SyncResult(status, [gced EXCEPT !.containers = acc.containers],
               acc.trace \o (IF acc.updateEventDispatched
                             THEN <<BuildCompleted(lu, status)>> ELSE <<>>),
               acc.visits)

SyncStatus(lu, gced, acc) == SyncWalked(lu, gced, acc, PromoteTerminated(lu, acc))

\* Convert the tracked state into inputs to the updater, and apply them.
maybeSync(lu, monitor, out) ==
    LET res == resource(lu, monitor) IN
    IF res = Nil
    THEN SyncResult([failed |-> createFailedState(lu, "Invalid", Message("no resource", "", {})),
                     containers |-> <<>>], monitor, <<>>, <<>>)
    ELSE
    LET manifestName == lu.annotations.manifest
        inTriggerQueue == monitor.lastTriggerQueue # Nil /\ manifestName # ""
                          /\ manifestName \in monitor.lastTriggerQueue.data
        isWaitingOnTrigger == lu.annotations.updateMode = "manual" /\ ~inTriggerQueue
        gced == garbageCollectMonitorContainers(res, garbageCollectFileChanges(res, monitor))
        sel == SelectedContainers(res)
        sticky == PreCheck(lu, gced.containers, sel)
    IN
    IF sticky # Nil
    THEN SyncResult([failed |-> sticky, containers |-> <<>>], gced, <<>>, <<>>)
    ELSE
    SyncStatus(lu, gced,
        visitSelectedContainers(lu, gced, isWaitingOnTrigger, out,
            [status |-> NoStatus, containers |-> gced.containers,
             updateEventDispatched |-> FALSE, terminatedContainerPodName |-> "",
             hasAnyFilesToSync |-> FALSE, trace |-> <<>>, stop |-> FALSE,
             visits |-> <<>>],
            sel))


\* ----------------------------------------------------------------- Reconcile

Idle ==
    [kind |-> "idle", name |-> "", stage |-> "", err |-> "", wrote |-> FALSE,
     status |-> NoStatus, trace |-> <<>>, visits |-> <<>>]

\* What one Reconcile does: the monitor it leaves (Nil: none), the status it
\* writes (Nil: no write), where it returned, the error it returned, the
\* status it computed, the events it dispatched and the updater calls it
\* made (in order), the containers it visited, and the monitor it gave to
\* maybeSync (Nil: maybeSync did not run).
Done(monitor, write, stage, err, status, trace, visits, evaluated) ==
    [monitor |-> monitor, write |-> write, stage |-> stage, err |-> err,
     status |-> status, trace |-> trace, visits |-> visits, evaluated |-> evaluated]

LiveUpdateUpsert(name) == [type |-> "LiveUpdateUpsert", manifestName |-> name]
LiveUpdateDelete(name) == [type |-> "LiveUpdateDelete", manifestName |-> name]

\* If the failure state has changed, write it to the apiserver: only the
\* failed field of the stored status is replaced.
handleFailure(lu, failed) ==
    IF lu.status.failed = Nil \/ lu.status.failed # failed
    THEN [lu.status EXCEPT !.failed = failed]
    ELSE Nil

\* A pass that writes its status whether it differs or not.
StatusUpdateAlways(lu, status) == status

\* The write at the end of a pass: the whole status, when it differs.
StatusUpdate(lu, status) == IF lu.status # status THEN status ELSE Nil

\* The name under which the failing of r.client.Status().Update is kept.
StatusName == "status"

\* The return of a pass after its Status().Update: when the write fails its
\* error is returned, nothing is written and the monitor is left as it was
\* at the write.
AfterWrite(done, monitor) ==
    IF done.write # Nil /\ faulty = StatusName
    THEN [done EXCEPT !.write = Nil, !.err = "error", !.stage = "writeFailed",
                      !.monitor = monitor]
    ELSE done

\* The end of the pass, after maybeSync: the status is written when it
\* differs from the stored one, and hasChangesToSync is cleared.
Synced(name, lu, m, sync) ==
    AfterWrite(Done([sync.monitor EXCEPT !.hasChangesToSync = FALSE],
                    StatusUpdate(lu, sync.status), "synced", "",
                    sync.status, <<LiveUpdateUpsert(name)>> \o sync.trace, sync.visits, m),
               sync.monitor)

\* The pass from maybeSync on, for the monitor with its changes to sync.
syncMonitor(name, lu, m, out) == Synced(name, lu, m, maybeSync(lu, m, out))

\* A pass that records every failed read as ObjectNotFound.
refreshFailedRecording(name, lu, s) ==
    LET failed == createFailedState(lu, "ObjectNotFound", Message("not found", "", {}))
    IN Done(s.monitor, handleFailure(lu, failed), "notFound", "",
            [lu.status EXCEPT !.failed = failed], <<LiveUpdateUpsert(name)>>, <<>>, Nil)

\* The pass ends at a refresh step that failed: a missing object is recorded
\* as ObjectNotFound, any other error is returned.
refreshFailed(name, lu, s) ==
    IF s.err = "NotFound"
    THEN LET failed == createFailedState(lu, "ObjectNotFound", Message("not found", "", {}))
         IN AfterWrite(Done(s.monitor, handleFailure(lu, failed), "notFound", "",
                            [lu.status EXCEPT !.failed = failed], <<LiveUpdateUpsert(name)>>,
                            <<>>, Nil),
                       s.monitor)
    ELSE Done(s.monitor, Nil, "error", s.err, lu.status, <<LiveUpdateUpsert(name)>>, <<>>, Nil)

\* The pass ends at the trigger queue, whose error is returned as it is.
triggerQueueFailed(name, lu, s) ==
    Done(s.monitor, Nil, "error", s.err, lu.status, <<LiveUpdateUpsert(name)>>, <<>>, Nil)

\* The pass once the monitor exists.
reconcileMonitor(name, lu, out) ==
    LET upsert == <<LiveUpdateUpsert(name)>>
        m0 == ensureMonitorExists(name, lu)
        s1 == reconcileSources(m0)
        s2 == reconcileKubernetesResource(s1.monitor)
        s3 == reconcileDockerComposeService(s2.monitor)
        s4 == reconcileTriggerQueue(s3.monitor)
    IN
    IF s1.err # "" THEN refreshFailed(name, lu, s1)
    ELSE IF s2.err # "" THEN refreshFailed(name, lu, s2)
    ELSE IF s3.err # "" THEN refreshFailed(name, lu, s3)
    ELSE IF s4.err # "" THEN triggerQueueFailed(name, lu, s4)
    ELSE
    LET hasChanges == s4.monitor.hasChangesToSync
                      \/ s1.changed \/ s2.changed \/ s3.changed \/ s4.changed
    IN
    IF ~hasChanges
    THEN Done([s4.monitor EXCEPT !.hasChangesToSync = FALSE], Nil, "noChanges", "",
              lu.status, upsert, <<>>, Nil)
    ELSE syncMonitor(name, lu, [s4.monitor EXCEPT !.hasChangesToSync = TRUE], out)

\* A deletion that dispatches nothing.
deletedSilently(name) ==
    Done(Nil, Nil, "deleted", "", NoStatus, <<>>, <<>>, Nil)

\* A deletion that leaves the monitor in the map.
deletedKeepingMonitor(name) ==
    Done(monitors[name], Nil, "deleted", "", NoStatus, <<LiveUpdateDelete(name)>>, <<>>, Nil)

\* The LiveUpdate is gone or being deleted: its monitor is deleted.
deleted(name) ==
    Done(Nil, Nil, "deleted", "", NoStatus, <<LiveUpdateDelete(name)>>, <<>>, Nil)

\* A reconciler that takes every LiveUpdate for its own.
IsManagedNever(lu) == FALSE

\* The managed-by annotation says another controller owns the LiveUpdate.
IsManaged(lu) == lu.annotations.managedBy # ""

reconcile(name, out) ==
    LET lu == GetLiveUpdate(name) IN
    IF lu = Errored
    THEN Done(monitors[name], Nil, "error", "error", NoStatus, <<>>, <<>>, Nil)
    ELSE IF lu = Absent \/ lu.deletionTimestamp # 0
    THEN deleted(name)
    ELSE IF IsManaged(lu)
    THEN Done(monitors[name], Nil, "managed", "", lu.status, <<LiveUpdateUpsert(name)>>, <<>>, Nil)
    ELSE
    LET invalid == ensureSelectorValid(lu) IN
    IF invalid # Nil
    THEN AfterWrite(Done(monitors[name], handleFailure(lu, invalid), "invalid", "",
                         [lu.status EXCEPT !.failed = invalid], <<LiveUpdateUpsert(name)>>,
                         <<>>, Nil),
                    monitors[name])
    ELSE reconcileMonitor(name, lu, out)

\* The containers an updater may be called for.
ContainerIDs == {"c1", "c2", "dc1"}

\* The updater calls among the events of a pass.
UpdaterCalls(trace) == SelectSeq(trace, LAMBDA e : e.type = "UpdateContainer")

\* The containers the updater is called for when every call succeeds: no
\* other container's outcome is ever read.
Called(name) ==
    {e.containerID : e \in Range(UpdaterCalls(
        reconcile(name, [c \in ContainerIDs |-> "ok"]).trace))}

CallKey(call) ==
    [containerID |-> call.containerID, podName |-> call.podName, namespace |-> call.namespace]

\* The keys of the containers the updater updated without an error.
UpdatedKeys(trace) ==
    {CallKey(e) : e \in {c \in Range(UpdaterCalls(trace)) : c.result = "ok"}}

\* The keys whose synced time the pass set.
AdvancedKeys(r) ==
    IF r.monitor = Nil THEN {}
    ELSE {v.key : v \in {w \in Range(r.visits) :
                            /\ w.decision = "applied"
                            /\ r.monitor.containers[w.key].failedReason = ""}}

\* What a pass leaves behind: its monitor and the status it wrote.
Commit(name, r) ==
    /\ monitors' = [monitors EXCEPT ![name] = r.monitor]
    /\ liveUpdates' = IF r.write = Nil THEN liveUpdates
                      ELSE [liveUpdates EXCEPT ![name].status = r.write]
    /\ UNCHANGED <<fileWatches, imageMaps, discovery, apply, service, triggerQueue, clock>>

\* Reconcile, with what the updater returns for each container as its input.
ReconcileWith(name, r) ==
    /\ Commit(name, r)
    /\ pass' = [kind |-> "reconcile", name |-> name, stage |-> r.stage, err |-> r.err,
                wrote |-> r.write # Nil, status |-> r.status, trace |-> r.trace,
                visits |-> r.visits]
    /\ synced' = synced \cup UpdatedKeys(r.trace)

\* The latest time ever synced to each container, after a pass.
Remembered(r, advanced) ==
    [k \in DOMAIN everSynced \cup advanced |->
        IF k \in advanced
        THEN Max(r.monitor.containers[k].lastFileTimeSynced,
                 IF k \in DOMAIN everSynced THEN everSynced[k] ELSE 0)
        ELSE everSynced[k]]

ReconcileReturning(name, r, remember) ==
    /\ ReconcileWith(name, r)
    /\ everSynced' = IF remember THEN Remembered(r, AdvancedKeys(r)) ELSE everSynced
    /\ UNCHANGED sideVars

\* What the updater returns for each container; the containers it is not
\* called for take no part.
UpdaterOutcomes(name) ==
    {[c \in ContainerIDs |-> IF c \in DOMAIN o THEN o[c] ELSE "ok"] :
        o \in [Called(name) -> Outcomes]}

Reconcile(name) ==
    \E out \in UpdaterOutcomes(name) : ReconcileReturning(name, reconcile(name, out), FALSE)

\* Reconcile, remembering the latest time ever synced to each container.
ReconcileRemembering(name) ==
    \E out \in UpdaterOutcomes(name) : ReconcileReturning(name, reconcile(name, out), TRUE)

\* ------------------------------------------------------------ the environment

ContainerState(running, waitingReason, terminated) ==
    [running |-> running, waitingReason |-> waitingReason, terminated |-> terminated]

Pod(name, phase, id, state) ==
    [name |-> name, namespace |-> Namespace, phase |-> phase, createdAt |-> StartedTime,
     containers |-> <<[id |-> id, name |-> "main", state |-> state]>>]

RunningPod(name, id) == Pod(name, "Running", id, ContainerState(TRUE, "", FALSE))
StartingPod(name) == Pod(name, "Pending", "", ContainerState(FALSE, "ContainerCreating", FALSE))
CrashingPod(name, id) == Pod(name, "Running", id, ContainerState(FALSE, "CrashLoopBackOff", FALSE))
SucceededPod(name, id) == Pod(name, "Succeeded", id, ContainerState(FALSE, "", TRUE))
FailedPod(name, id) == Pod(name, "Failed", id, ContainerState(FALSE, "", TRUE))
\* A pod still in phase Running whose container has exited.
ExitedPod(name, id) == Pod(name, "Running", id, ContainerState(FALSE, "", TRUE))

\* One pod, in any state or missing.
OnePodLists ==
    {<<>>, <<RunningPod("p1", "c1")>>, <<StartingPod("p1")>>,
     <<CrashingPod("p1", "c1")>>, <<SucceededPod("p1", "c1")>>}

\* Two pods: the first running, crashing or missing, the second running or
\* missing.
TwoPodLists ==
    {a \o b : a \in {<<>>, <<RunningPod("p1", "c1")>>, <<CrashingPod("p1", "c1")>>},
              b \in {<<>>, <<RunningPod("p2", "c2")>>}}

\* Two pods: the first terminated in any way, running or missing, the second
\* succeeded, starting or missing.
TerminatedPodLists ==
    {a \o b : a \in {<<>>, <<SucceededPod("p1", "c1")>>, <<FailedPod("p1", "c1")>>,
                      <<ExitedPod("p1", "c1")>>, <<RunningPod("p1", "c1")>>},
              b \in {<<>>, <<SucceededPod("p2", "c2")>>, <<StartingPod("p2")>>}}

\* One running pod.
OneRunningPod == <<RunningPod("p1", "c1")>>

\* The inputs of the environment's actions.
SyncedFiles == {MainGo, StopTxt}
UpdateModes == {"auto", "manual"}
Triggered == {ManifestName}
TriggerQueueData == {{}, Triggered}

\* One pod, running or missing.
RunningPodLists == {<<>>, <<RunningPod("p1", "c1")>>}

SelectedKeys(pods) ==
    {monitorContainerKey(pods[i], pods[i].containers[j]) :
        i \in DOMAIN pods, j \in {1}}

EventsOf(fwn) ==
    IF fileWatches[fwn] = Absent THEN <<>> ELSE fileWatches[fwn].status.fileEvents

EventCount == Len(EventsOf("fw1")) + Len(EventsOf("fw2"))

\* A FileWatch reports one more event; its events are in time order.
FileEvent(fwn, t, f) ==
    LET events == EventsOf(fwn) IN
    /\ fileWatches[fwn] # Absent
    /\ EventCount < MaxEvents
    /\ events # <<>> => events[Len(events)].time <= t
    /\ fileWatches' = [fileWatches EXCEPT
                         ![fwn].status.fileEvents = Append(@, [time |-> t, seenFiles |-> {f}])]
    /\ pass' = Idle
    /\ synced' = {}
    /\ UNCHANGED <<liveUpdates, imageMaps, discovery, apply, service, triggerQueue, clock,
                   monitors, everSynced>>
    /\ UNCHANGED sideVars

\* An image build starts.
ImageBuild(t) ==
    /\ imageMaps[ImageMapName].status.buildStartTime < t
    /\ imageMaps' = [imageMaps EXCEPT ![ImageMapName].status.buildStartTime = t]
    /\ pass' = Idle
    /\ UNCHANGED <<liveUpdates, fileWatches, discovery, apply, service, triggerQueue, clock,
                   monitors, synced, everSynced>>
    /\ UNCHANGED sideVars

\* The discovery reports other pods.
Discover(pods) ==
    /\ discovery # Absent
    /\ discovery.status.pods # pods
    /\ discovery' = [discovery EXCEPT !.status.pods = pods]
    /\ pass' = Idle
    /\ synced' = synced \cap SelectedKeys(pods)
    /\ UNCHANGED <<liveUpdates, fileWatches, imageMaps, apply, service, triggerQueue, clock,
                   monitors, everSynced>>
    /\ UNCHANGED sideVars

\* The Docker Compose service comes up with a running container.
ComposeUp ==
    /\ service = Absent
    /\ service' = [status |-> [container |-> [id |-> "dc1", name |-> "main",
                                              state |-> ContainerState(TRUE, "", FALSE)],
                               startedAt |-> StartedTime]]
    /\ pass' = Idle
    /\ UNCHANGED <<liveUpdates, fileWatches, imageMaps, discovery, apply, triggerQueue, clock,
                   monitors, synced, everSynced>>
    /\ UNCHANGED sideVars

\* The spec of the live update is replaced.
SetSpec(name, spec) ==
    /\ liveUpdates[name] # Absent
    /\ liveUpdates[name].spec # spec
    /\ liveUpdates' = [liveUpdates EXCEPT ![name].spec = spec]
    /\ pass' = Idle
    /\ synced' = {}
    /\ UNCHANGED <<fileWatches, imageMaps, discovery, apply, service, triggerQueue, clock,
                   monitors, everSynced>>
    /\ UNCHANGED sideVars

\* The update-mode annotation of the LiveUpdate is set.
SetUpdateMode(name, updateMode) ==
    /\ liveUpdates[name] # Absent
    /\ liveUpdates[name].annotations.updateMode # updateMode
    /\ liveUpdates' = [liveUpdates EXCEPT ![name].annotations.updateMode = updateMode]
    /\ pass' = Idle
    /\ UNCHANGED <<fileWatches, imageMaps, discovery, apply, service, triggerQueue, clock,
                   monitors, synced, everSynced>>
    /\ UNCHANGED sideVars

\* The trigger-queue ConfigMap is written: created, or its manifest names
\* replaced.
WriteTriggerQueue(names) ==
    /\ IF triggerQueue = Absent THEN TRUE ELSE triggerQueue.data # names
    /\ triggerQueue' = [data |-> names]
    /\ pass' = Idle
    /\ UNCHANGED <<liveUpdates, fileWatches, imageMaps, discovery, apply, service, clock,
                   monitors, synced, everSynced>>
    /\ UNCHANGED sideVars

Annotations(updateMode, managedBy) ==
    [manifest |-> ManifestName, updateMode |-> updateMode, managedBy |-> managedBy]

LiveUpdate(spec, annotations) ==
    [spec |-> spec, annotations |-> annotations, deletionTimestamp |-> 0, status |-> NoStatus]

\* Time passes: apis.NowMicro() returns a later time.
Tick ==
    /\ clock < MaxTime
    /\ clock' = clock + 1
    /\ pass' = Idle
    /\ UNCHANGED <<liveUpdates, fileWatches, imageMaps, discovery, apply, service, triggerQueue,
                   monitors, synced, everSynced>>
    /\ UNCHANGED sideVars

\* The objects a LiveUpdate may refer to, and the trigger queue.
ObjectNames ==
    {"fw1", ImageMapName, DiscoveryName, ApplyName, ServiceName, TriggerQueueName}

\* The object stored under a name, Absent when there is none.
Stored(name) ==
    IF name \in DOMAIN fileWatches THEN fileWatches[name]
    ELSE IF name \in DOMAIN imageMaps THEN imageMaps[name]
    ELSE IF name = DiscoveryName THEN discovery
    ELSE IF name = ApplyName THEN apply
    ELSE IF name = ServiceName THEN service
    ELSE triggerQueue

\* The object of a name as it is when created.
NewObject(name) ==
    IF name \in DOMAIN fileWatches THEN [status |-> [fileEvents |-> <<>>]]
    ELSE IF name \in DOMAIN imageMaps THEN [status |-> [buildStartTime |-> 0]]
    ELSE IF name = DiscoveryName THEN [status |-> [pods |-> <<>>]]
    ELSE IF name = ApplyName THEN [status |-> [lastApplyStartTime |-> StartedTime]]
    ELSE IF name = ServiceName
    THEN [status |-> [container |-> [id |-> "dc1", name |-> "main",
                                     state |-> ContainerState(TRUE, "", FALSE)],
                      startedAt |-> StartedTime]]
    ELSE [data |-> {}]

Put(name, obj) ==
    /\ fileWatches' = IF name \in DOMAIN fileWatches
                      THEN [fileWatches EXCEPT ![name] = obj] ELSE fileWatches
    /\ imageMaps' = IF name \in DOMAIN imageMaps
                    THEN [imageMaps EXCEPT ![name] = obj] ELSE imageMaps
    /\ discovery' = IF name = DiscoveryName THEN obj ELSE discovery
    /\ apply' = IF name = ApplyName THEN obj ELSE apply
    /\ service' = IF name = ServiceName THEN obj ELSE service
    /\ triggerQueue' = IF name = TriggerQueueName THEN obj ELSE triggerQueue
    /\ pass' = Idle
    /\ UNCHANGED <<liveUpdates, clock, monitors, synced, everSynced>>
    /\ UNCHANGED sideVars

\* An object is removed from the API server.
DeleteObject(name) ==
    /\ Stored(name) # Absent
    /\ Put(name, Absent)

\* An object is created.
CreateObject(name) ==
    /\ Stored(name) = Absent
    /\ Put(name, NewObject(name))

\* The reads of an object start, or stop, failing with an error that is not
\* NotFound.
Fault(name) ==
    /\ faulty # name
    /\ faulty' = name
    /\ pass' = Idle
    /\ UNCHANGED <<liveUpdates, fileWatches, imageMaps, discovery, apply, service, triggerQueue,
                   clock, monitors, synced, everSynced, mu, pc, collected>>

\* The LiveUpdate exists and has no deletion timestamp.
Live(lu) == IF lu = Absent THEN FALSE ELSE lu.deletionTimestamp = 0

\* The LiveUpdate is created.
CreateLiveUpdate(name, spec, managedBy) ==
    /\ liveUpdates[name] = Absent
    /\ liveUpdates' = [liveUpdates EXCEPT ![name] = LiveUpdate(spec, Annotations("auto", managedBy))]
    /\ pass' = Idle
    /\ synced' = {}
    /\ UNCHANGED <<fileWatches, imageMaps, discovery, apply, service, triggerQueue, clock,
                   monitors, everSynced>>
    /\ UNCHANGED sideVars

\* The LiveUpdate is marked for deletion: it gets its deletion timestamp.
MarkDeleted(name) ==
    /\ Live(liveUpdates[name])
    /\ liveUpdates' = [liveUpdates EXCEPT ![name].deletionTimestamp = clock]
    /\ pass' = Idle
    /\ UNCHANGED <<fileWatches, imageMaps, discovery, apply, service, triggerQueue, clock,
                   monitors, synced, everSynced>>
    /\ UNCHANGED sideVars

\* The LiveUpdate is removed from the API server.
DeleteLiveUpdate(name) ==
    /\ liveUpdates[name] # Absent
    /\ liveUpdates' = [liveUpdates EXCEPT ![name] = Absent]
    /\ pass' = Idle
    /\ UNCHANGED <<fileWatches, imageMaps, discovery, apply, service, triggerQueue, clock,
                   monitors, synced, everSynced>>
    /\ UNCHANGED sideVars

\* The managed-by annotation of the LiveUpdate is set or removed.
SetManagedBy(name, managedBy) ==
    /\ liveUpdates[name] # Absent
    /\ liveUpdates[name].annotations.managedBy # managedBy
    /\ liveUpdates' = [liveUpdates EXCEPT ![name].annotations.managedBy = managedBy]
    /\ pass' = Idle
    /\ UNCHANGED <<fileWatches, imageMaps, discovery, apply, service, triggerQueue, clock,
                   monitors, synced, everSynced>>
    /\ UNCHANGED sideVars

\* The goroutines: two reconcile workers and the ConfigMap watch handler.
Workers == {"w1", "w2"}
Handler == "cm"
Goroutines == Workers \cup {Handler}
AtRest == [at |-> "idle", name |-> ""]

\* No file-change GC has run.
NoCollection == [ran |-> FALSE]

InitNames(names) ==
    /\ liveUpdates = [n \in names |-> LiveUpdate(SpecOne, Annotations("auto", ""))]
    /\ fileWatches = [n \in FWNames |-> [status |-> [fileEvents |-> <<>>]]]
    /\ imageMaps = [n \in {ImageMapName} |-> [status |-> [buildStartTime |-> 0]]]
    /\ discovery = [status |-> [pods |-> <<>>]]
    /\ apply = Absent
    /\ service = Absent
    /\ triggerQueue = Absent
    /\ clock = StartedTime
    /\ monitors = [n \in names |-> Nil]
    /\ pass = Idle
    /\ synced = {}
    /\ everSynced = EmptyMap
    /\ faulty = ""
    /\ mu = ""
    /\ pc = [g \in Goroutines |-> AtRest]
    /\ collected = NoCollection

Init == InitNames(LUNames)

\* ------------------------------------------------- the garbage-collection step

\* The GC time of each source the collector goes through.
GcTimes(res, monitor) ==
    [fwn \in {monitor.spec.sources[i].fileWatch : i \in DOMAIN monitor.spec.sources}
                \cap DOMAIN monitor.sources |->
        GcTime(res, monitor.sources[fwn])]

\* The garbage-collection step of maybeSync: the time used for each source,
\* the monitor it was given and the monitor it left.
Collected(res, monitor) ==
    IF res = Nil THEN NoCollection
    ELSE [ran |-> TRUE, gcTime |-> GcTimes(res, monitor), before |-> monitor,
          after |-> garbageCollectFileChanges(res, monitor)]

\* The garbage-collection step of a pass, when its maybeSync ran.
Collection(lu, evaluated) ==
    IF evaluated = Nil THEN NoCollection ELSE Collected(resource(lu, evaluated), evaluated)

ReconcileCollected(name, r) ==
    /\ ReconcileWith(name, r)
    /\ collected' = Collection(liveUpdates[name], r.evaluated)
    /\ UNCHANGED <<everSynced, faulty, mu, pc>>

\* Reconcile, keeping what its garbage-collection step did.
ReconcileCollecting(name) ==
    \E out \in UpdaterOutcomes(name) : ReconcileCollected(name, reconcile(name, out))

\* ------------------------------------------------------------ the goroutines

\* sync.Mutex: Lock returns once no goroutine holds the mutex.
MutexFree(holder) == holder = ""

\* An enqueueTriggerQueue that reads the monitors without taking the mutex.
MayReadMonitorsUnlocked(holder) == TRUE

\* enqueueTriggerQueue reads the monitors map once r.mu.Lock() has returned.
MayReadMonitors(holder) == MutexFree(holder)

\* A worker takes a request off the workqueue and calls Reconcile.
CallReconcile(g, name) ==
    /\ pc[g].at = "idle"
    /\ pc' = [pc EXCEPT ![g] = [at |-> "lock", name |-> name]]
    /\ UNCHANGED <<liveUpdates, fileWatches, imageMaps, discovery, apply, service, triggerQueue,
                   clock, monitors, pass, synced, everSynced, faulty, mu, collected>>

\* r.mu.Lock() at the entry of Reconcile.
LockReconcile(g) ==
    /\ pc[g].at = "lock"
    /\ MutexFree(mu)
    /\ mu' = g
    /\ pc' = [pc EXCEPT ![g].at = "body"]
    /\ UNCHANGED <<liveUpdates, fileWatches, imageMaps, discovery, apply, service, triggerQueue,
                   clock, monitors, pass, synced, everSynced, faulty, collected>>

\* Where the goroutine is once the body has read its inputs and decided: in
\* its ContainerUpdater calls when it makes any.
Running(name, r) ==
    [at |-> IF UpdaterCalls(r.trace) # <<>> THEN "updating" ELSE "returning",
     name |-> name, r |-> r]

\* The body of Reconcile reads its inputs and starts on its updater calls.
RunReconcile(g) ==
    /\ pc[g].at = "body"
    /\ \E out \in UpdaterOutcomes(pc[g].name) :
          pc' = [pc EXCEPT ![g] = Running(pc[g].name, reconcile(pc[g].name, out))]
    /\ UNCHANGED <<liveUpdates, fileWatches, imageMaps, discovery, apply, service, triggerQueue,
                   clock, monitors, pass, synced, everSynced, faulty, mu, collected>>

\* Reconcile writes what it decided and returns; the deferred r.mu.Unlock()
\* runs.
ReturnReconcile(g) ==
    /\ pc[g].at \in {"updating", "returning"}
    /\ Commit(pc[g].name, pc[g].r)
    /\ mu' = ""
    /\ pc' = [pc EXCEPT ![g] = AtRest]
    /\ UNCHANGED <<pass, synced, everSynced, faulty, collected>>

\* The watch handler calls enqueueTriggerQueue for a write of the ConfigMap.
CallEnqueue(g) ==
    /\ pc[g].at = "idle"
    /\ triggerQueue # Absent
    /\ pc' = [pc EXCEPT ![g] = [at |-> "enqueueLock", name |-> TriggerQueueName]]
    /\ UNCHANGED <<liveUpdates, fileWatches, imageMaps, discovery, apply, service, triggerQueue,
                   clock, monitors, pass, synced, everSynced, faulty, mu, collected>>

\* r.mu.Lock() in enqueueTriggerQueue, before the monitors are read.
LockEnqueue(g) ==
    /\ pc[g].at = "enqueueLock"
    /\ MayReadMonitors(mu)
    /\ mu' = g
    /\ pc' = [pc EXCEPT ![g].at = "enqueueRead"]
    /\ UNCHANGED <<liveUpdates, fileWatches, imageMaps, discovery, apply, service, triggerQueue,
                   clock, monitors, pass, synced, everSynced, faulty, collected>>

\* enqueueTriggerQueue has read the monitors and returns; the deferred
\* r.mu.Unlock() runs.
ReturnEnqueue(g) ==
    /\ pc[g].at = "enqueueRead"
    /\ mu' = ""
    /\ pc' = [pc EXCEPT ![g] = AtRest]
    /\ UNCHANGED <<liveUpdates, fileWatches, imageMaps, discovery, apply, service, triggerQueue,
                   clock, monitors, pass, synced, everSynced, faulty, collected>>

\* -------------------------------------------------------- the specifications

\* One FileWatch and one pod.
Next ==
    \/ \E n \in LUNames : Reconcile(n)
    \/ \E t \in Times, f \in Files : FileEvent("fw1", t, f)
    \/ \E t \in Times : ImageBuild(t)
    \/ \E pods \in OnePodLists : Discover(pods)

Spec == Init /\ [][Next]_vars

\* Two pods.
NextPods ==
    \/ \E n \in LUNames : Reconcile(n)
    \/ \E t \in Times, f \in SyncedFiles : FileEvent("fw1", t, f)
    \/ \E pods \in TwoPodLists : Discover(pods)

SpecPods == Init /\ [][NextPods]_vars

\* Two FileWatches, and a spec that changes.
NextSources ==
    \/ \E n \in LUNames : ReconcileRemembering(n)
    \/ \E fwn \in FWNames, t \in Times : FileEvent(fwn, t, MainGo)
    \/ \E t \in Times : ImageBuild(t)
    \/ \E pods \in RunningPodLists : Discover(pods)
    \/ \E n \in LUNames, spec \in SourceSpecs : SetSpec(n, spec)

SpecSources == Init /\ [][NextSources]_vars

\* The selectors a LiveUpdate may carry.
SpecCompose == LiveUpdateSpec(Nil, DockerComposeSelector, <<Source("fw1", ImageMapName)>>, FALSE)
SpecNoSelector == LiveUpdateSpec(Nil, Nil, <<Source("fw1", ImageMapName)>>, FALSE)
SpecBothSelectors ==
    LiveUpdateSpec(KubernetesSelector, DockerComposeSelector, <<Source("fw1", ImageMapName)>>, FALSE)
SelectorSpecs == {SpecOne, SpecCompose, SpecNoSelector, SpecBothSelectors}
LifecycleSpecs == {SpecOne, SpecNoSelector}

NextSelector ==
    \/ \E n \in LUNames : Reconcile(n)
    \/ \E t \in Times : FileEvent("fw1", t, MainGo)
    \/ \E pods \in RunningPodLists : Discover(pods)
    \/ ComposeUp
    \/ \E n \in LUNames, spec \in SelectorSpecs : SetSpec(n, spec)

SpecSelector == Init /\ [][NextSelector]_vars

\* Pods that have terminated, next to pods that live.
NextTerminated ==
    \/ \E n \in LUNames : Reconcile(n)
    \/ \E t \in Times : FileEvent("fw1", t, MainGo)
    \/ \E pods \in TerminatedPodLists : Discover(pods)

SpecTerminated == Init /\ [][NextTerminated]_vars

\* Manual mode and the trigger queue.
NextManual ==
    \/ \E n \in LUNames : Reconcile(n)
    \/ \E t \in Times : FileEvent("fw1", t, MainGo)
    \/ \E pods \in TwoPodLists : Discover(pods)
    \/ \E n \in LUNames, mode \in UpdateModes : SetUpdateMode(n, mode)
    \/ \E names \in TriggerQueueData : WriteTriggerQueue(names)

SpecManual == Init /\ [][NextManual]_vars

\* Two LiveUpdates, reconciled by two workers next to the ConfigMap handler;
\* the workers' requests carry the same name or different names.
TwoNames == {"lu", "lu2"}

NextMutex ==
    \/ \E n \in TwoNames : CallReconcile("w1", n)
    \/ CallReconcile("w2", "lu2")
    \/ \E g \in Workers : LockReconcile(g)
    \/ \E g \in Workers : RunReconcile(g)
    \/ \E g \in Workers : ReturnReconcile(g)
    \/ CallEnqueue(Handler)
    \/ LockEnqueue(Handler)
    \/ ReturnEnqueue(Handler)
    \/ \E t \in Times : FileEvent("fw1", t, MainGo)
    \/ Discover(OneRunningPod)
    \/ WriteTriggerQueue(Triggered)

SpecMutex == InitNames(TwoNames) /\ [][NextMutex]_vars

\* The LiveUpdate is created, annotated, marked for deletion and removed.
ManagedByValues == {"", "buildcontrol"}

NextLifecycle ==
    \/ \E n \in LUNames : Reconcile(n)
    \/ \E t \in Times : FileEvent("fw1", t, MainGo)
    \/ Discover(OneRunningPod)
    \/ \E n \in LUNames, spec \in LifecycleSpecs, m \in ManagedByValues :
          CreateLiveUpdate(n, spec, m)
    \/ \E n \in LUNames : MarkDeleted(n)
    \/ \E n \in LUNames : DeleteLiveUpdate(n)
    \/ \E n \in LUNames, m \in ManagedByValues : SetManagedBy(n, m)
    \/ \E n \in LUNames, spec \in LifecycleSpecs : SetSpec(n, spec)

SpecLifecycle == Init /\ [][NextLifecycle]_vars

\* Builds, file events of two FileWatches and updater failures, with the
\* garbage-collection step of each pass kept.
NextCollect ==
    \/ \E n \in LUNames : ReconcileCollecting(n)
    \/ \E fwn \in FWNames, t \in Times : FileEvent(fwn, t, MainGo)
    \/ \E t \in Times : ImageBuild(t)
    \/ Discover(OneRunningPod)
    \/ \E n \in LUNames, spec \in SourceSpecs : SetSpec(n, spec)

SpecCollect == Init /\ [][NextCollect]_vars

\* Referenced objects that go missing and come back, and reads that fail.
SpecApply ==
    LiveUpdateSpec([discoveryName |-> DiscoveryName, applyName |-> ApplyName,
                    imageMapName |-> ImageMapName],
                   Nil, <<Source("fw1", "")>>, FALSE)

ObjectSpecs == {SpecApply, SpecCompose}
DeletableNames == ObjectNames \ {TriggerQueueName}
FaultNames == ObjectNames \cup LUNames \cup {""}
StatusFaults == {"", StatusName}
DiscoveryFaults == {"", DiscoveryName}

NextObjects ==
    \/ \E n \in LUNames : Reconcile(n)
    \/ FileEvent("fw1", MaxTime, MainGo)
    \/ Discover(OneRunningPod)
    \/ \E name \in DeletableNames : DeleteObject(name)
    \/ \E name \in ObjectNames : CreateObject(name)
    \/ \E n \in LUNames, spec \in ObjectSpecs : SetSpec(n, spec)

SpecObjects == Init /\ [][NextObjects]_vars

\* Reads that fail with an error that is not NotFound.
NextFaults ==
    \/ \E n \in LUNames : Reconcile(n)
    \/ FileEvent("fw1", MaxTime, MainGo)
    \/ Discover(OneRunningPod)
    \/ \E name \in ObjectNames : CreateObject(name)
    \/ \E name \in FaultNames : Fault(name)
    \/ \E n \in LUNames, spec \in ObjectSpecs : SetSpec(n, spec)

SpecFaults == Init /\ [][NextFaults]_vars

\* Failures that come, change their message, and go, while time passes.
TransitionPodLists ==
    {<<>>, <<SucceededPod("p1", "c1")>>, <<SucceededPod("p2", "c2")>>,
     <<RunningPod("p1", "c1")>>}

NextTransition ==
    \/ \E n \in LUNames : Reconcile(n)
    \/ Tick
    \/ \E t \in Times : FileEvent("fw1", t, MainGo)
    \/ \E pods \in TransitionPodLists : Discover(pods)
    \/ \E n \in LUNames, spec \in LifecycleSpecs : SetSpec(n, spec)

SpecTransition == Init /\ [][NextTransition]_vars

\* Passes with and without changes, and status writes that fail.
NextFrame ==
    \/ \E n \in LUNames : Reconcile(n)
    \/ \E t \in Times : FileEvent("fw1", t, MainGo)
    \/ \E t \in Times : ImageBuild(t)
    \/ \E pods \in RunningPodLists : Discover(pods)
    \/ \E name \in StatusFaults : Fault(name)

SpecFrame == Init /\ [][NextFrame]_vars

\* A spec that changes under a monitor with accumulated state; the pod stays.
NextReset ==
    \/ \E n \in LUNames : ReconcileRemembering(n)
    \/ \E fwn \in FWNames, t \in Times : FileEvent(fwn, t, MainGo)
    \/ Discover(OneRunningPod)
    \/ \E n \in LUNames, spec \in SourceSpecs : SetSpec(n, spec)

SpecReset == Init /\ [][NextReset]_vars

\* The managed-by annotation comes and goes, next to objects that are
\* missing and reads that fail.
NextManaged ==
    \/ \E n \in LUNames : Reconcile(n)
    \/ FileEvent("fw1", MaxTime, MainGo)
    \/ Discover(OneRunningPod)
    \/ \E n \in LUNames, m \in ManagedByValues : SetManagedBy(n, m)
    \/ \E name \in DiscoveryFaults : Fault(name)
    \/ DeleteObject("fw1")
    \/ CreateObject("fw1")

SpecManaged == Init /\ [][NextManaged]_vars

\* Updater calls that are aborted, then passes over the same pod and files.
NextRetry ==
    \/ \E n \in LUNames : Reconcile(n)
    \/ \E t \in Times : FileEvent("fw1", t, MainGo)
    \/ \E t \in Times : ImageBuild(t)
    \/ \E pods \in RunningPodLists : Discover(pods)

SpecRetry == Init /\ [][NextRetry]_vars

\* A pod that is starting, running or terminated, alone or before a second
\* that runs.
GatePodLists ==
    {<<RunningPod("p1", "c1")>>, <<StartingPod("p1")>>, <<ExitedPod("p1", "c1")>>,
     <<StartingPod("p1"), RunningPod("p2", "c2")>>,
     <<FailedPod("p1", "c1"), RunningPod("p2", "c2")>>}

NextGate ==
    \/ \E n \in LUNames : Reconcile(n)
    \/ \E t \in Times : FileEvent("fw1", t, MainGo)
    \/ \E pods \in GatePodLists : Discover(pods)
    \/ \E n \in LUNames, mode \in UpdateModes : SetUpdateMode(n, mode)
    \/ \E names \in TriggerQueueData : WriteTriggerQueue(names)

SpecGate == Init /\ [][NextGate]_vars

\* ================================================================ properties

\* The updater calls of the last pass.
Calls == UpdaterCalls(pass.trace)

\* The visits of the last pass that called the updater.
AppliedVisits == {v \in Range(pass.visits) : v.decision = "applied"}

\* The ImageMap of a source of the LiveUpdate, "" when it has none.
SourceImageMap(n, fwn) ==
    LET sources == liveUpdates[n].spec.sources
    IN sources[CHOOSE i \in DOMAIN sources : sources[i].fileWatch = fwn].imageMap

\* The visits of the last pass that set the synced time of their container.
Advanced ==
    {v \in AppliedVisits : monitors[pass.name].containers[v.key].failedReason = ""}

\* C1 as stated: a successful sync sets lastFileTimeSynced of a key to a
\* value at or above the value after any earlier successful sync of the key.
C1_NeverBelowEarlierSync ==
    pass.kind = "reconcile" =>
        \A v \in Advanced :
            /\ v.key \in DOMAIN everSynced
            /\ monitors[pass.name].containers[v.key].lastFileTimeSynced >= everSynced[v.key]

\* C1, amended: from one Reconcile to the next, while the spec is unchanged
\* and the monitor keeps the entry of the key (the container is still
\* selected), the lastFileTimeSynced recorded for the key does not decrease.
C1_MonotonicWatermark ==
    [][\A n \in LUNames :
          (monitors[n] # Nil /\ monitors'[n] # Nil /\ monitors'[n].spec = monitors[n].spec)
          => \A k \in DOMAIN monitors[n].containers \cap DOMAIN monitors'[n].containers :
                monitors'[n].containers[k].lastFileTimeSynced
                   >= monitors[n].containers[k].lastFileTimeSynced]_vars

\* A container synced before is synced again, to a later time.
C1_Witness ==
    /\ pass.kind = "reconcile"
    /\ \E v \in Advanced :
          /\ v.highWaterMark > StartedTime
          /\ monitors[pass.name].containers[v.key].lastFileTimeSynced > v.highWaterMark

\* C2: once the updater has updated a container with the file events as they
\* stand, a later Reconcile with the same file events, the same spec and the
\* container still selected makes no updater call for that container.
C2_ReplaySafety ==
    [][\A k \in synced :
          pass'.kind = "reconcile"
             => \A c \in Range(UpdaterCalls(pass'.trace)) : CallKey(c) # k]_vars

\* A pass that evaluated the live update, with a container already updated
\* for the present file events, and called no updater.
C2_Witness ==
    /\ pass.kind = "reconcile" /\ pass.stage = "synced"
    /\ synced # {}
    /\ \E v \in Range(pass.visits) : v.key \in synced /\ v.decision = "noUpdate"
    /\ Calls = <<>>

\* Where the events of one type stand in the trace of the last pass.
Positions(type) == {i \in DOMAIN pass.trace : pass.trace[i].type = type}

\* C3: in a pass BuildStarted is dispatched at most once and before every
\* updater call, BuildCompleted exactly once and after every updater call if
\* BuildStarted was dispatched and not at all otherwise, and no updater call
\* is made without a BuildStarted before it.
C3_BuildEvents ==
    /\ Cardinality(Positions("BuildStarted")) <= 1
    /\ Cardinality(Positions("BuildCompleted")) = Cardinality(Positions("BuildStarted"))
    /\ \A c \in Positions("UpdateContainer") : \E b \in Positions("BuildStarted") : b < c
    /\ \A e \in Positions("BuildCompleted") :
          /\ \A c \in Positions("UpdateContainer") : c < e
          /\ \A b \in Positions("BuildStarted") : b < e

\* A pass that updated two containers between one BuildStarted and one
\* BuildCompleted.
C3_Witness ==
    /\ pass.kind = "reconcile"
    /\ Cardinality(Positions("UpdateContainer")) = 2
    /\ Cardinality(Positions("BuildStarted")) = 1
    /\ Cardinality(Positions("BuildCompleted")) = 1

\* C4: while a selected container carries a failure memo, the spec is
\* unchanged and no build started after the memo's low-water mark, every
\* Reconcile that evaluates the live update reports status.failed with the
\* memo's reason and message, and calls no updater.
C4_FailureStickiness ==
    [][\A n \in LUNames :
          (/\ monitors[n] # Nil
           /\ monitors[n].spec = liveUpdates[n].spec
           /\ pass'.kind = "reconcile" /\ pass'.name = n /\ pass'.stage = "synced")
          => \A k \in DOMAIN monitors[n].containers :
                (/\ monitors[n].containers[k].failedReason # ""
                 /\ k \in SelectedKeys(discovery.status.pods)
                 /\ imageMaps[ImageMapName].status.buildStartTime
                       <= monitors[n].containers[k].failedLowWaterMark)
                => /\ liveUpdates'[n].status.failed # Nil
                   /\ liveUpdates'[n].status.failed.reason
                         = monitors[n].containers[k].failedReason
                   /\ liveUpdates'[n].status.failed.message
                         = monitors[n].containers[k].failedMessage
                   /\ UpdaterCalls(pass'.trace) = <<>>]_vars

\* C5 as stated: the files of a file event at or before the build start of
\* its source's ImageMap are never passed to the updater.
C5_AtOrBeforeBuildStart ==
    pass.kind = "reconcile" =>
        \A v \in AppliedVisits : \A e \in v.entries :
            SourceImageMap(pass.name, e[3]) # ""
               => e[2] > GetImageMap(SourceImageMap(pass.name, e[3])).status.buildStartTime

\* C5, amended: the files of a file event strictly before the build start of
\* its source's ImageMap are never passed to the updater.
C5_BeforeBuildStart ==
    pass.kind = "reconcile" =>
        \A v \in AppliedVisits : \A e \in v.entries :
            SourceImageMap(pass.name, e[3]) # ""
               => e[2] >= GetImageMap(SourceImageMap(pass.name, e[3])).status.buildStartTime

\* A pass that called the updater while the FileWatch held an event from
\* before the build start, whose file the updater did not get.
C5_Witness ==
    /\ pass.kind = "reconcile"
    /\ \E v \in AppliedVisits :
          \E i \in DOMAIN fileWatches["fw1"].status.fileEvents :
             LET event == fileWatches["fw1"].status.fileEvents[i] IN
             /\ event.time < imageMaps[ImageMapName].status.buildStartTime
             /\ event.seenFiles \cap Range(v.filesChanged) = {}

\* C6: a LiveUpdate whose selector has neither family or both gets
\* status.failed Invalid, and the pass returns at the validation, with no
\* updater call.
C6_SelectorExclusivity ==
    pass.kind = "reconcile" =>
        ((liveUpdates[pass.name].spec.selector.kubernetes = Nil)
            = (liveUpdates[pass.name].spec.selector.dockerCompose = Nil)
         => /\ liveUpdates[pass.name].status.failed # Nil
            /\ liveUpdates[pass.name].status.failed.reason = "Invalid"
            /\ pass.stage = "invalid"
            /\ Calls = <<>>)

\* C7: when in one pass the updater returns a RunStepFailure for container c1
\* and then succeeds for container c2, status.failed is PodsInconsistent.
C7_PodsInconsistent ==
    pass.kind = "reconcile" =>
        ((\E i, j \in DOMAIN Calls :
            /\ i < j
            /\ Calls[i].containerID = "c1" /\ Calls[i].result = "RunStepFailure"
            /\ Calls[j].containerID = "c2" /\ Calls[j].result = "ok")
         => /\ liveUpdates[pass.name].status.failed # Nil
            /\ liveUpdates[pass.name].status.failed.reason = "PodsInconsistent")

\* C8: with a Kubernetes selector, restart off, one selected container that
\* is running and has an ID, and one file event at time T (after the
\* reconciler started and after any build start) for a file under a sync that
\* no container has been updated with, one Reconcile whose updater call
\* succeeds dispatches BuildStarted with exactly that file, calls the updater
\* once with hotReload, writes a status without failure and with one
\* container entry synced to T, and dispatches BuildCompleted with no error.
C8_HappyPath ==
    [][\A T \in Times :
          (/\ pass'.kind = "reconcile"
           /\ liveUpdates["lu"].spec = SpecOne
           /\ discovery.status.pods = <<RunningPod("p1", "c1")>>
           /\ fileWatches["fw1"].status.fileEvents = <<[time |-> T, seenFiles |-> {MainGo}]>>
           /\ T > StartedTime
           /\ T > imageMaps[ImageMapName].status.buildStartTime
           /\ monitors["lu"] # Nil =>
                 \A k \in DOMAIN monitors["lu"].containers :
                    /\ monitors["lu"].containers[k].lastFileTimeSynced = 0
                    /\ monitors["lu"].containers[k].failedReason = ""
           /\ \A c \in Range(UpdaterCalls(pass'.trace)) : c.result = "ok")
          => /\ Len(pass'.trace) = 4
             /\ pass'.trace[1] = LiveUpdateUpsert("lu")
             /\ pass'.trace[2] = BuildStarted(liveUpdates["lu"], <<MainGo>>)
             /\ pass'.trace[3] =
                   [type |-> "UpdateContainer", containerID |-> "c1", podName |-> "p1",
                    namespace |-> Namespace,
                    paths |-> <<[localPath |-> MainGo,
                                 containerPath |-> <<"app", "src", "main.go">>]>>,
                    hotReload |-> TRUE, result |-> "ok"]
             /\ pass'.trace[4].type = "BuildCompleted"
             /\ pass'.trace[4].error = ""
             /\ liveUpdates'["lu"].status =
                   [failed |-> Nil,
                    containers |-> <<[containerName |-> "main", containerID |-> "c1",
                                      podName |-> "p1", namespace |-> Namespace,
                                      lastFileTimeSynced |-> T, lastExecError |-> "",
                                      waiting |-> Nil]>>]]_vars

\* The happy path has run: one event, one running container, one successful
\* updater call between BuildStarted and BuildCompleted.
C8_Witness ==
    /\ pass.kind = "reconcile"
    /\ discovery.status.pods = <<RunningPod("p1", "c1")>>
    /\ Len(fileWatches["fw1"].status.fileEvents) = 1
    /\ fileWatches["fw1"].status.fileEvents[1].seenFiles = {MainGo}
    /\ Len(pass.trace) = 4
    /\ pass.trace[3].type = "UpdateContainer" /\ pass.trace[3].result = "ok"
    /\ liveUpdates["lu"].status.failed = Nil
    /\ Len(liveUpdates["lu"].status.containers) = 1
    /\ liveUpdates["lu"].status.containers[1].lastFileTimeSynced
          = fileWatches["fw1"].status.fileEvents[1].time

\* The pending files give a sync plan that is not empty: all of them lie
\* under a sync and none is a stop file.
Syncable(spec, files) ==
    /\ files # <<>>
    /\ \A f \in Range(files) : MatchesSync(spec.syncs, f) /\ f \notin spec.stopPaths

\* C9: for a selected container that is not terminated and waits in
\* CrashLoopBackOff, pending files with a sync plan that is not empty make
\* status.failed CrashLoopBackOff, with no updater call for the container;
\* with no pending files the container is not failed.
C9_CrashLoopHalt ==
    pass.kind = "reconcile" =>
        \A v \in Range(pass.visits) :
            (v.decision # "terminated" /\ v.container.state.waitingReason = "CrashLoopBackOff")
            => /\ Syncable(liveUpdates[pass.name].spec, v.filesChanged)
                  => /\ liveUpdates[pass.name].status.failed # Nil
                     /\ liveUpdates[pass.name].status.failed.reason = "CrashLoopBackOff"
                     /\ \A c \in Range(Calls) : c.containerID # v.container.id
               /\ v.filesChanged = <<>>
                  => /\ liveUpdates[pass.name].status.failed = Nil
                     /\ monitors[pass.name].containers[v.key].failedReason = ""

\* A pass found a crash-looping container with files to sync and failed.
C9_Witness ==
    /\ pass.kind = "reconcile"
    /\ \E v \in Range(pass.visits) :
          /\ v.decision # "terminated"
          /\ v.container.state.waitingReason = "CrashLoopBackOff"
          /\ Syncable(liveUpdates[pass.name].spec, v.filesChanged)
    /\ liveUpdates[pass.name].status.failed # Nil
    /\ liveUpdates[pass.name].status.failed.reason = "CrashLoopBackOff"

\* A container the pass evaluated whose pending files include a stop file.
StopFilePending(v) ==
    /\ v.decision # "terminated"
    /\ Range(v.filesChanged) \cap liveUpdates[pass.name].spec.stopPaths # {}

\* The pending files of a visit that lie under no sync.
Unmatched(v) ==
    {f \in Range(v.filesChanged) : ~MatchesSync(liveUpdates[pass.name].spec.syncs, f)}

TerminatedVisits == {i \in DOMAIN pass.visits : pass.visits[i].decision = "terminated"}
VisitsWithFiles == {i \in DOMAIN pass.visits : pass.visits[i].filesChanged # <<>>}

\* The pod of the first terminated container the pass visited.
FirstTerminatedPod ==
    pass.visits[CHOOSE i \in TerminatedVisits : \A j \in TerminatedVisits : i <= j].key.podName

\* The status of the last pass is failed Terminated, naming the first
\* terminated pod.
TerminatedFailure ==
    /\ pass.status.failed # Nil
    /\ pass.status.failed.reason = "Terminated"
    /\ pass.status.failed.message.pod = FirstTerminatedPod
    /\ liveUpdates[pass.name].status = pass.status

\* C11 as stated: at the end of a pass with no other failure, when a selected
\* container was terminated, no live container was updated in the pass and
\* there were files to sync, status.failed is Terminated with the name of the
\* first terminated pod.
C11_NoLiveContainerUpdated ==
    (/\ pass.kind = "reconcile" /\ pass.stage = "synced"
     /\ pass.status.failed # Nil => pass.status.failed.reason = "Terminated"
     /\ TerminatedVisits # {}
     /\ AppliedVisits = {}
     /\ VisitsWithFiles # {})
    => TerminatedFailure

\* C11, amended: at the end of a pass with no other failure, when a selected
\* container was terminated, every selected container was terminated (no live
\* container has an entry in status.containers) and there were files to sync,
\* status.failed is Terminated with the name of the first terminated pod, and
\* no updater call was made.
C11_TerminatedOnly ==
    (/\ pass.kind = "reconcile" /\ pass.stage = "synced"
     /\ pass.status.failed # Nil => pass.status.failed.reason = "Terminated"
     /\ TerminatedVisits # {}
     /\ TerminatedVisits = DOMAIN pass.visits
     /\ VisitsWithFiles # {})
    => TerminatedFailure /\ Calls = <<>>

\* Two terminated pods with files pending: the pass failed Terminated, naming
\* the first.
C11_Witness ==
    /\ pass.kind = "reconcile" /\ pass.stage = "synced"
    /\ Cardinality(TerminatedVisits) = 2
    /\ VisitsWithFiles # {}
    /\ TerminatedFailure
    /\ pass.status.failed.message.pod = "p1"

\* The manifest of the LiveUpdate is in the trigger-queue ConfigMap.
InTriggerQueue(n) ==
    triggerQueue # Absent /\ liveUpdates[n].annotations.manifest \in triggerQueue.data

\* The last pass the monitor saw the trigger queue without the manifest.
GateWasClosed(n) ==
    \/ monitors[n] = Nil
    \/ monitors[n].lastTriggerQueue = Nil
    \/ liveUpdates[n].annotations.manifest \notin monitors[n].lastTriggerQueue.data

\* The selected containers that are running and have an ID.
RunningSelected ==
    {k \in SelectedKeys(discovery.status.pods) :
        \E i \in DOMAIN discovery.status.pods :
            /\ discovery.status.pods[i].name = k.podName
            /\ discovery.status.pods[i].phase = "Running"
            /\ discovery.status.pods[i].containers[1].state.running
            /\ k.containerID # ""}

InReconcile == {g \in Goroutines : pc[g].at \in {"body", "updating", "returning"}}
InEnqueue == {g \in Goroutines : pc[g].at = "enqueueRead"}

\* C13: at most one goroutine is inside a Reconcile body, whatever the names
\* reconciled; enqueueTriggerQueue reads the monitors only while no goroutine
\* is inside a Reconcile body; and at most one goroutine is in its
\* ContainerUpdater calls.
C13_MutualExclusion ==
    /\ Cardinality(InReconcile) <= 1
    /\ InEnqueue # {} => InReconcile = {}
    /\ Cardinality({g \in Goroutines : pc[g].at = "updating"}) <= 1

\* One worker is in its updater calls for one LiveUpdate while the other
\* worker waits for the mutex with a request for the other LiveUpdate, and
\* the handler waits for it in enqueueTriggerQueue.
C13_Witness ==
    /\ pc["w1"].at = "updating" /\ pc["w1"].name = "lu"
    /\ pc["w2"].at = "lock" /\ pc["w2"].name = "lu2"
    /\ pc[Handler].at = "enqueueLock"
    /\ mu = "w1"

Unmonitored(lu) ==
    \/ lu.annotations.managedBy # ""
    \/ ensureSelectorValid(lu) # Nil

KeptTimes(fwn) == collected.after.sources[fwn].modTimeByPath
GivenTimes(fwn) == collected.before.sources[fwn].modTimeByPath

\* C15 as stated: after the garbage-collection step of a pass, every entry
\* of a source's modTimeByPath is strictly later than the build-start time
\* used for the source.
C15_LaterThanBuildStart ==
    (pass.kind = "reconcile" /\ collected.ran) =>
        \A fwn \in DOMAIN collected.gcTime :
            \A f \in DOMAIN KeptTimes(fwn) : KeptTimes(fwn)[f] > collected.gcTime[fwn]

\* C15 (amended): the garbage-collection step drops the entries strictly
\* earlier than the build-start time used for the source and keeps the
\* others, those at the build-start time included, as they were.
C15_NotBeforeBuildStart ==
    (pass.kind = "reconcile" /\ collected.ran) =>
        \A fwn \in DOMAIN collected.gcTime :
            /\ DOMAIN KeptTimes(fwn) =
                  {f \in DOMAIN GivenTimes(fwn) : GivenTimes(fwn)[f] >= collected.gcTime[fwn]}
            /\ \A f \in DOMAIN KeptTimes(fwn) : KeptTimes(fwn)[f] = GivenTimes(fwn)[f]

\* The garbage-collection step of a pass dropped an entry recorded before
\* the build started.
C15_Witness ==
    /\ pass.kind = "reconcile"
    /\ collected.ran
    /\ \E fwn \in DOMAIN collected.gcTime :
          \E f \in DOMAIN GivenTimes(fwn) :
             /\ GivenTimes(fwn)[f] < collected.gcTime[fwn]
             /\ f \notin DOMAIN KeptTimes(fwn)

\* The failure memos given to the garbage-collection step of the last pass.
GivenMemos ==
    {k \in DOMAIN collected.before.containers :
        collected.before.containers[k].failedLowWaterMark # 0}

\* The step left the container with no failure: eligible for sync again.
MemoCleared(k) ==
    /\ collected.after.containers[k].failedReason = ""
    /\ collected.after.containers[k].failedMessage = NoMessage
    /\ collected.after.containers[k].failedLowWaterMark = 0

MemoKept(k) == collected.after.containers[k] = collected.before.containers[k]

\* C16 as stated: the garbage-collection step clears every failure memo whose
\* low-water mark is at or before the build-start time, and keeps the others.
C16_ClearedAtOrBefore ==
    (pass.kind = "reconcile" /\ collected.ran) =>
        \A k \in GivenMemos :
            IF \E fwn \in DOMAIN collected.gcTime :
                  collected.before.containers[k].failedLowWaterMark <= collected.gcTime[fwn]
            THEN MemoCleared(k) ELSE MemoKept(k)

\* C16 (amended): the garbage-collection step clears every failure memo whose
\* low-water mark is strictly before the build-start time used for one of the
\* sources, and keeps the others, those with the mark at the build-start time
\* included.
C16_ClearedBefore ==
    (pass.kind = "reconcile" /\ collected.ran) =>
        \A k \in GivenMemos :
            IF \E fwn \in DOMAIN collected.gcTime :
                  collected.before.containers[k].failedLowWaterMark < collected.gcTime[fwn]
            THEN MemoCleared(k) ELSE MemoKept(k)

\* The garbage-collection step of a pass cleared the memo of a failure from
\* before the build.
C16_Witness ==
    /\ pass.kind = "reconcile"
    /\ collected.ran
    /\ \E k \in GivenMemos :
          /\ \E fwn \in DOMAIN collected.gcTime :
                collected.before.containers[k].failedLowWaterMark < collected.gcTime[fwn]
          /\ MemoCleared(k)

\* C17: in every status a pass writes, failed and the per-container progress
\* exclude each other: a status with failed set lists no containers, the
\* statuses written for Invalid and ObjectNotFound after an earlier
\* successful pass included.
C17_FailedExcludesContainers ==
    (pass.kind = "reconcile" /\ pass.wrote) =>
        (liveUpdates[pass.name].status.failed # Nil
            => liveUpdates[pass.name].status.containers = <<>>)

\* The names of the objects a pass reads for a spec, in the order it reads
\* them: per source the FileWatch and the ImageMap, then the KubernetesApply,
\* the KubernetesDiscovery and the selector's ImageMap, then the
\* DockerComposeService, then the trigger queue.
Named(name) == IF name = "" THEN <<>> ELSE <<name>>

RECURSIVE SourceReads(_)
SourceReads(sources) ==
    IF sources = <<>> THEN <<>>
    ELSE Named(Head(sources).fileWatch) \o Named(Head(sources).imageMap)
         \o SourceReads(Tail(sources))

SelectorReads(selector) ==
    (IF selector.kubernetes = Nil THEN <<>>
     ELSE Named(selector.kubernetes.applyName) \o Named(selector.kubernetes.discoveryName)
          \o Named(selector.kubernetes.imageMapName))
    \o (IF selector.dockerCompose = Nil THEN <<>> ELSE Named(selector.dockerCompose.service))

Reads(spec) == SourceReads(spec.sources) \o SelectorReads(spec.selector) \o <<TriggerQueueName>>

\* A read that does not give the object: the object is missing (which the
\* trigger queue may be) or its reads fail.
Missing(name) == Stored(name) = Absent /\ name # TriggerQueueName
Troubled(name) == faulty = name \/ Missing(name)

\* The first read of a pass that does not give its object, "" when all do.
FirstTrouble(reads) ==
    IF \E i \in DOMAIN reads : Troubled(reads[i])
    THEN reads[CHOOSE i \in DOMAIN reads :
                  Troubled(reads[i]) /\ \A j \in 1..(i - 1) : ~Troubled(reads[j])]
    ELSE ""

\* The last pass read its LiveUpdate and went on to refresh its inputs.
Refreshed ==
    /\ pass.kind = "reconcile"
    /\ faulty # pass.name
    /\ Live(liveUpdates[pass.name])
    /\ ~Unmonitored(liveUpdates[pass.name])

\* C18: when a referenced object is NotFound during the refresh, the pass
\* leaves status.failed.reason = ObjectNotFound, returns no error and calls
\* no updater; a trigger queue that is NotFound is no failure and does not
\* end the pass.
C18_ObjectNotFound ==
    Refreshed =>
        LET first == FirstTrouble(Reads(liveUpdates[pass.name].spec)) IN
        /\ (first # "" /\ faulty # first) =>
              /\ pass.stage = "notFound"
              /\ liveUpdates[pass.name].status.failed # Nil
              /\ liveUpdates[pass.name].status.failed.reason = "ObjectNotFound"
              /\ pass.err = ""
              /\ Calls = <<>>
        /\ (first = "" /\ triggerQueue = Absent) =>
              /\ pass.stage \in {"synced", "noChanges"}
              /\ pass.err = ""

\* A pass ended at a missing KubernetesDiscovery while the FileWatch held an
\* event and the trigger queue was missing too.
C18_Witness ==
    /\ Refreshed
    /\ FirstTrouble(Reads(liveUpdates[pass.name].spec)) = DiscoveryName
    /\ pass.stage = "notFound"
    /\ EventsOf("fw1") # <<>>
    /\ triggerQueue = Absent

\* Every object the spec refers to exists.
AllPresent(spec) == \A i \in DOMAIN Reads(spec) : ~Missing(Reads(spec)[i])

\* C19: once status.failed = ObjectNotFound was recorded, a Reconcile that
\* runs while every referenced object exists leaves a status whose failed is
\* not ObjectNotFound.
C19_ClearedWhenPresent ==
    [][(/\ pass'.kind = "reconcile"
        /\ faulty = ""
        /\ Live(liveUpdates[pass'.name])
        /\ ~Unmonitored(liveUpdates[pass'.name])
        /\ liveUpdates[pass'.name].status.failed # Nil
        /\ liveUpdates[pass'.name].status.failed.reason = "ObjectNotFound"
        /\ AllPresent(liveUpdates[pass'.name].spec))
       => \/ liveUpdates'[pass'.name].status.failed = Nil
          \/ liveUpdates'[pass'.name].status.failed.reason # "ObjectNotFound"]_vars

\* C20: when the read of the LiveUpdate, or the first read of the refresh
\* that does not give its object, fails with an error that is not NotFound,
\* the pass returns that error, writes no status and calls no updater.
C20_TransientError ==
    pass.kind = "reconcile" =>
        ((\/ faulty = pass.name
          \/ /\ Refreshed
             /\ faulty # ""
             /\ FirstTrouble(Reads(liveUpdates[pass.name].spec)) = faulty)
         => /\ pass.err = "error"
            /\ ~pass.wrote
            /\ Calls = <<>>)

\* A pass returned the error of the KubernetesDiscovery read, with a file
\* event waiting in the FileWatch and a status written by an earlier pass.
C20_Witness ==
    /\ Refreshed
    /\ faulty = DiscoveryName
    /\ FirstTrouble(Reads(liveUpdates[pass.name].spec)) = DiscoveryName
    /\ pass.err = "error"
    /\ EventsOf("fw1") # <<>>
    /\ liveUpdates[pass.name].status # NoStatus

\* C21: whenever a pass writes status.failed, its lastTransitionTime is that
\* of the stored failed state when there is one with the same reason, the
\* message differing or not, and the current time otherwise.
C21_TransitionTime ==
    [][(/\ pass'.kind = "reconcile"
        /\ pass'.wrote
        /\ liveUpdates'[pass'.name].status.failed # Nil)
       => liveUpdates'[pass'.name].status.failed.lastTransitionTime =
            IF /\ liveUpdates[pass'.name].status.failed # Nil
               /\ liveUpdates[pass'.name].status.failed.reason
                     = liveUpdates'[pass'.name].status.failed.reason
            THEN liveUpdates[pass'.name].status.failed.lastTransitionTime
            ELSE clock]_vars

\* A pass wrote a Terminated failure naming pod p2 whose transition time is
\* earlier than the current time: the stored failure was Terminated too,
\* with another message.
C21_Witness ==
    /\ pass.kind = "reconcile"
    /\ pass.wrote
    /\ liveUpdates[pass.name].status.failed # Nil
    /\ liveUpdates[pass.name].status.failed.reason = "Terminated"
    /\ liveUpdates[pass.name].status.failed.message.pod = "p2"
    /\ liveUpdates[pass.name].status.failed.lastTransitionTime < clock

\* No refresh step reports a change for the monitor.
QuietTriggerQueue(m) ==
    LET s == reconcileTriggerQueue(m) IN s.err = "" /\ ~s.changed
QuietCompose(m) ==
    LET s == reconcileDockerComposeService(m) IN
    s.err = "" /\ ~s.changed /\ QuietTriggerQueue(s.monitor)
QuietKubernetes(m) ==
    LET s == reconcileKubernetesResource(m) IN
    s.err = "" /\ ~s.changed /\ QuietCompose(s.monitor)
Quiet(m) ==
    LET s == reconcileSources(m) IN
    s.err = "" /\ ~s.changed /\ QuietKubernetes(s.monitor)

\* The LiveUpdate has its monitor, no refresh step reports a change and no
\* change is pending.
NothingToDo(n) ==
    /\ Live(liveUpdates[n])
    /\ ~Unmonitored(liveUpdates[n])
    /\ monitors[n] # Nil
    /\ monitors[n].spec = liveUpdates[n].spec
    /\ ~monitors[n].hasChangesToSync
    /\ Quiet(monitors[n])

\* C22: a Reconcile for which no refresh step reports a change and no change
\* is pending leaves the status and the container monitors as they were and
\* calls no updater; an evaluated pass writes the status only if the
\* computed one differs from the stored one; and hasChangesToSync is false
\* after every Reconcile that returns without error past the refresh steps.
C22_NoChangeFrame ==
    [][pass'.kind = "reconcile" =>
        /\ NothingToDo(pass'.name) =>
              /\ pass'.stage = "noChanges"
              /\ liveUpdates' = liveUpdates
              /\ monitors'[pass'.name].containers = monitors[pass'.name].containers
              /\ UpdaterCalls(pass'.trace) = <<>>
        /\ pass'.stage = "synced" =>
              /\ pass'.wrote <=> pass'.status # liveUpdates[pass'.name].status
              /\ liveUpdates'[pass'.name].status = pass'.status
        /\ (pass'.stage \in {"synced", "noChanges"} /\ pass'.err = "") =>
              ~monitors'[pass'.name].hasChangesToSync]_vars

\* A pass found nothing to do although the FileWatch holds an event and an
\* earlier pass listed a container in the status.
C22_Witness ==
    /\ pass.kind = "reconcile"
    /\ pass.stage = "noChanges"
    /\ ~pass.wrote
    /\ EventsOf("fw1") # <<>>
    /\ liveUpdates[pass.name].status.containers # <<>>

\* A monitor with no accumulated state, for the spec of the LiveUpdate.
FreshMonitor(m, lu) ==
    /\ m.spec = lu.spec
    /\ m.sources = EmptyMap
    /\ m.containers = EmptyMap
    /\ m.lastKubernetesDiscovery = Nil
    /\ m.lastKubernetesApplyStatus = Nil
    /\ m.lastImageMap = Nil
    /\ m.lastDockerComposeService = Nil
    /\ m.lastTriggerQueue = Nil
    /\ ~m.hasChangesToSync

\* C23: a Reconcile of a live, valid LiveUpdate works on a fresh monitor when
\* there is none for the name or when the spec differs from the monitor's,
\* and on the existing monitor with all its state when the spec is the
\* monitor's; the monitor it leaves is one for the spec it observed.
C23_MonitorLifecycle ==
    [][(/\ pass'.kind = "reconcile"
        /\ Live(liveUpdates[pass'.name])
        /\ ~Unmonitored(liveUpdates[pass'.name]))
       => /\ IF monitors[pass'.name] = Nil
             THEN FreshMonitor(ensureMonitorExists(pass'.name, liveUpdates[pass'.name]),
                               liveUpdates[pass'.name])
             ELSE IF monitors[pass'.name].spec # liveUpdates[pass'.name].spec
             THEN FreshMonitor(ensureMonitorExists(pass'.name, liveUpdates[pass'.name]),
                               liveUpdates[pass'.name])
             ELSE ensureMonitorExists(pass'.name, liveUpdates[pass'.name])
                    = monitors[pass'.name]
          /\ monitors'[pass'.name] # Nil
          /\ monitors'[pass'.name].spec = liveUpdates[pass'.name].spec]_vars

\* After a pass for a changed spec the monitor holds, for a container that
\* was synced before, a watermark earlier than the time it was synced to:
\* the state accumulated under the old spec is gone.
C23_Witness ==
    /\ pass.kind = "reconcile"
    /\ monitors[pass.name] # Nil
    /\ monitors[pass.name].spec = SpecTwo
    /\ \E k \in DOMAIN everSynced :
          \/ k \notin DOMAIN monitors[pass.name].containers
          \/ monitors[pass.name].containers[k].lastFileTimeSynced < everSynced[k]

\* C24: a Reconcile of a live LiveUpdate with a managed-by annotation leaves
\* the monitors and the status as they were, returns no error whatever the
\* referenced objects are (it reads none), and dispatches nothing but the
\* upsert of the LiveUpdate: no build event, no updater call.
C24_ManagedByGate ==
    [][(/\ pass'.kind = "reconcile"
        /\ faulty # pass'.name
        /\ Live(liveUpdates[pass'.name])
        /\ liveUpdates[pass'.name].annotations.managedBy # "")
       => /\ monitors' = monitors
          /\ liveUpdates' = liveUpdates
          /\ ~pass'.wrote
          /\ pass'.err = ""
          /\ pass'.trace = <<LiveUpdateUpsert(pass'.name)>>]_vars

\* A pass stopped at the managed-by annotation although the monitor of an
\* earlier pass exists, a file event waits and the KubernetesDiscovery
\* cannot be read.
C24_Witness ==
    /\ pass.kind = "reconcile"
    /\ pass.stage = "managed"
    /\ monitors[pass.name] # Nil
    /\ EventsOf("fw1") # <<>>
    /\ faulty = DiscoveryName

\* The containers whose update an earlier pass saw aborted: the memo
\* UpdateFailed is stored by nothing else.
Aborted(m) == {k \in DOMAIN m.containers : m.containers[k].failedReason = "UpdateFailed"}

\* The synced time a pass starts from for a container.
SyncedBefore(n, k) ==
    IF monitors[n] = Nil THEN 0
    ELSE IF monitors[n].spec = liveUpdates[n].spec /\ k \in DOMAIN monitors[n].containers
    THEN monitors[n].containers[k].lastFileTimeSynced
    ELSE 0

RecordedAfterStart(m, f) ==
    \E s \in DOMAIN m.sources :
        IF f \in DOMAIN m.sources[s].modTimeByPath
        THEN m.sources[s].modTimeByPath[f] > StartedTime
        ELSE FALSE

\* C26: a container without a recorded synced time is walked from the
\* reconciler's start time, and no file recorded only with times at or
\* before the start time is among the changed files of any container or
\* among the paths of any updater call.
C26_StartupWatermark ==
    [][\A n \in LUNames :
          (pass'.kind = "reconcile" /\ pass'.name = n)
          => /\ \A i \in DOMAIN pass'.visits :
                   LET v == pass'.visits[i] IN
                   /\ SyncedBefore(n, v.key) = 0 => v.highWaterMark = StartedTime
                   /\ v.highWaterMark >= StartedTime
                   /\ \A e \in v.entries : e[2] > StartedTime
                   /\ \A j \in DOMAIN v.filesChanged :
                         RecordedAfterStart(monitors'[n], v.filesChanged[j])
             /\ \A i \in DOMAIN UpdaterCalls(pass'.trace) :
                   LET call == UpdaterCalls(pass'.trace)[i] IN
                   \A j \in DOMAIN call.paths :
                       RecordedAfterStart(monitors'[n], call.paths[j].localPath)]_vars

\* A pass that walked a container from the start time and left out a file
\* recorded at the start time, while passing on the file of the other source.
C26_Witness ==
    /\ pass.kind = "reconcile" /\ pass.stage = "synced"
    /\ \E i \in DOMAIN pass.visits :
          /\ pass.visits[i].highWaterMark = StartedTime
          /\ pass.visits[i].decision = "applied"
          /\ \E e \in pass.visits[i].entries : e[3] = "fw2"
          /\ \A e \in pass.visits[i].entries : e[3] # "fw1"
    /\ Calls # <<>>
    /\ LET sources == monitors[pass.name].sources IN
       IF "fw1" \in DOMAIN sources
       THEN sources["fw1"].modTimeByPath = (MainGo :> StartedTime)
       ELSE FALSE

\* The keys of the containers a pass walked.
VisitedKeys(visits) == {visits[i].key : i \in DOMAIN visits}

\* C27: a Reconcile that finds the LiveUpdate absent or marked for deletion
\* leaves no monitor for the name, dispatches LiveUpdateDelete and nothing
\* else, returns no error and writes no status; a pass that finds no monitor
\* for a valid LiveUpdate, as the first pass after it is created again does,
\* starts from a fresh monitor: it walks every container from the start time
\* and the monitor it leaves knows only the containers it walked.
C27_Deletion ==
    [][\A n \in LUNames :
          (pass'.kind = "reconcile" /\ pass'.name = n)
          => /\ ~Live(liveUpdates[n])
                => /\ pass'.stage = "deleted"
                   /\ monitors'[n] = Nil
                   /\ pass'.trace = <<LiveUpdateDelete(n)>>
                   /\ pass'.err = ""
                   /\ ~pass'.wrote
                   /\ liveUpdates' = liveUpdates
                   /\ UpdaterCalls(pass'.trace) = <<>>
             /\ (monitors[n] = Nil /\ pass'.stage = "synced")
                => /\ FreshMonitor(ensureMonitorExists(n, liveUpdates[n]), liveUpdates[n])
                   /\ DOMAIN monitors'[n].containers \subseteq VisitedKeys(pass'.visits)
                   /\ \A i \in DOMAIN pass'.visits :
                         pass'.visits[i].highWaterMark = StartedTime]_vars

\* A pass has found the LiveUpdate gone after its container was synced, and
\* has deleted the monitor that held the synced time.
C27_Witness ==
    /\ pass.kind = "reconcile" /\ pass.stage = "deleted"
    /\ pass.trace = <<LiveUpdateDelete(pass.name)>>
    /\ liveUpdates[pass.name] = Absent
    /\ synced # {}
    /\ monitors[pass.name] = Nil

\* The selected containers with a failure memo in a monitor.
Memos(m, pods) ==
    {k \in SelectedKeys(pods) :
        IF k \in DOMAIN m.containers THEN m.containers[k].failedReason # "" ELSE FALSE}

\* C28: every updater call of a pass is for a container the pass walked, in
\* a pod whose phase is neither Succeeded nor Failed, not terminated, running
\* and with a container ID, with the live update not waiting on a manual
\* trigger and with the sync paths of the container's plan, of which there
\* is at least one; and no selected container carried a failure memo at the
\* pre-check: a memo found after the pass is the one of the container whose
\* failure ended the walk.
C28_UpdaterPreconditions ==
    [][\A n \in LUNames :
          (pass'.kind = "reconcile" /\ pass'.name = n /\ UpdaterCalls(pass'.trace) # <<>>)
          => /\ \A c \in Range(UpdaterCalls(pass'.trace)) :
                   /\ Len(c.paths) >= 1
                   /\ \E i \in DOMAIN pass'.visits :
                         LET v == pass'.visits[i] IN
                         /\ v.key = CallKey(c)
                         /\ v.key \in SelectedKeys(discovery.status.pods)
                         /\ v.phase \notin {"Succeeded", "Failed"}
                         /\ ~v.container.state.terminated
                         /\ v.container.state.running
                         /\ v.container.id # ""
                         /\ c.paths = NewLiveUpdatePlan(liveUpdates[n].spec,
                                                        v.filesChanged).syncPaths
             /\ ~(liveUpdates[n].annotations.updateMode = "manual" /\ ~InTriggerQueue(n))
             /\ \A k \in Memos(monitors'[n], discovery.status.pods) :
                   /\ pass'.status.failed # Nil
                   /\ k = pass'.visits[Len(pass'.visits)].key
                   /\ IF monitors[n] = Nil THEN TRUE
                      ELSE IF monitors[n].spec # liveUpdates[n].spec THEN TRUE
                      ELSE k \notin Memos(monitors[n], discovery.status.pods)]_vars

\* In manual mode with the manifest in the trigger queue, a pass walked a
\* terminated container and a running one and called the updater only for
\* the running one.
C28_Witness ==
    /\ pass.kind = "reconcile" /\ pass.stage = "synced"
    /\ liveUpdates[pass.name].annotations.updateMode = "manual"
    /\ Len(pass.visits) = 2
    /\ pass.visits[1].phase = "Failed"
    /\ pass.visits[1].filesChanged # <<>>
    /\ pass.visits[2].decision = "applied"
    /\ Len(Calls) = 1
    /\ CallKey(Calls[1]) = pass.visits[2].key

\* The visits of the last pass whose updater call returned a RunStepFailure.
RunStepFailures ==
    {i \in DOMAIN pass.visits :
        \E c \in Range(Calls) :
            CallKey(c) = pass.visits[i].key /\ c.result = "RunStepFailure"}

\* The status entry of a container has the error of a failed run step.
ExecErrorListed(status, k) ==
    \E j \in DOMAIN status.containers :
        /\ status.containers[j].containerID = k.containerID
        /\ status.containers[j].podName = k.podName
        /\ status.containers[j].lastExecError # ""

\* The walk went on after visit i: the next selected container was visited,
\* and every later container that can be updated was, with the sync paths
\* of its pending files, the same files when it has the same watermark.
WalkedOn(n, i) ==
    /\ i < Len(discovery.status.pods) => Len(pass.visits) > i
    /\ \A j \in DOMAIN pass.visits :
          (/\ j > i
           /\ pass.visits[j].decision # "terminated"
           /\ WaitingState(pass.visits[j].container, FALSE) = Nil
           /\ ~IsCrashLooping(pass.visits[j].container)
           /\ Syncable(liveUpdates[n].spec, pass.visits[j].filesChanged))
          => /\ pass.visits[j].decision = "applied"
             /\ pass.visits[j].highWaterMark = pass.visits[i].highWaterMark
                => pass.visits[j].filesChanged = pass.visits[i].filesChanged
             /\ \E c \in Range(Calls) :
                   /\ CallKey(c) = pass.visits[j].key
                   /\ c.paths = NewLiveUpdatePlan(liveUpdates[n].spec,
                                                  pass.visits[j].filesChanged).syncPaths

\* C29 as stated: after a pass in which the updater returned a
\* RunStepFailure for a container, the container's status entry has the
\* error as lastExecError, the container has no failure memo, and the walk
\* went on to the remaining containers.
C29_ExecErrorRecorded ==
    pass.kind = "reconcile" =>
        \A i \in RunStepFailures :
            /\ ExecErrorListed(liveUpdates[pass.name].status, pass.visits[i].key)
            /\ monitors[pass.name].containers[pass.visits[i].key].failedReason = ""
            /\ WalkedOn(pass.name, i)

\* C29, amended: a RunStepFailure for a container stores no failure memo
\* for it and does not end the walk, which goes on to update the remaining
\* containers; status.failed is set in such a pass only by the failure of a
\* container visited later, and unless that happens (status.containers is
\* then empty) the container's status entry has the error as lastExecError.
C29_RunStepFailure ==
    pass.kind = "reconcile" =>
        \A i \in RunStepFailures :
            /\ monitors[pass.name].containers[pass.visits[i].key].failedReason = ""
            /\ WalkedOn(pass.name, i)
            /\ IF pass.status.failed = Nil
               THEN /\ liveUpdates[pass.name].status.failed = Nil
                    /\ ExecErrorListed(liveUpdates[pass.name].status, pass.visits[i].key)
               ELSE /\ i < Len(pass.visits)
                    /\ monitors[pass.name].containers[pass.visits[Len(pass.visits)].key].failedReason
                          = pass.status.failed.reason
                    /\ liveUpdates[pass.name].status.containers = <<>>

\* A pass got a RunStepFailure for the first container and went on to update
\* the second with the same files; both are listed, the first with its error.
C29_Witness ==
    /\ pass.kind = "reconcile" /\ pass.stage = "synced"
    /\ Len(Calls) = 2
    /\ Calls[1].result = "RunStepFailure"
    /\ Calls[2].result = "ok"
    /\ Calls[1].paths = Calls[2].paths
    /\ liveUpdates[pass.name].status.failed = Nil
    /\ Len(liveUpdates[pass.name].status.containers) = 2
    /\ liveUpdates[pass.name].status.containers[1].lastExecError # ""
    /\ liveUpdates[pass.name].status.containers[2].lastExecError = ""

\* The containers whose entry in the stored status has the error of a run
\* step: the last evaluated pass got a RunStepFailure for them.
ExecErrors(n) ==
    {k \in DOMAIN monitors[n].containers :
        ExecErrorListed(liveUpdates[n].status, k)}

\* C30: a pass that gets a RunStepFailure for a container sets the
\* container's lastFileTimeSynced to the latest time of the files it sent
\* and stores no failure memo; a later pass sends that container nothing
\* while no recorded file is newer than that time, and only the newer files
\* when there are some.
C30_ExecErrorWatermark ==
    [][\A n \in LUNames :
          (pass'.kind = "reconcile" /\ pass'.name = n)
          => /\ \A i \in DOMAIN pass'.visits :
                   LET v == pass'.visits[i] IN
                   (\E c \in Range(UpdaterCalls(pass'.trace)) :
                        CallKey(c) = v.key /\ c.result = "RunStepFailure")
                   => /\ v.entries # {}
                      /\ monitors'[n].containers[v.key].lastFileTimeSynced
                            = MaxTimeOf({e[2] : e \in v.entries})
                      /\ monitors'[n].containers[v.key].lastFileTimeSynced > v.highWaterMark
                      /\ monitors'[n].containers[v.key].failedReason = ""
             /\ (monitors[n] # Nil /\ pass'.stage = "synced")
                => \A k \in (IF monitors[n] # Nil THEN ExecErrors(n) ELSE {}) :
                      LET T == monitors[n].containers[k].lastFileTimeSynced IN
                      /\ T > StartedTime
                      /\ \A i \in DOMAIN pass'.visits :
                            pass'.visits[i].key = k
                            => /\ pass'.visits[i].highWaterMark = T
                               /\ \A e \in pass'.visits[i].entries : e[2] > T
                      /\ \A c \in Range(UpdaterCalls(pass'.trace)) :
                            CallKey(c) = k
                            => \E s \in DOMAIN monitors'[n].sources :
                                  \E f \in DOMAIN monitors'[n].sources[s].modTimeByPath :
                                     monitors'[n].sources[s].modTimeByPath[f] > T]_vars

\* A later pass walked a container whose only updates ended in a
\* RunStepFailure from the time of those files, found nothing newer and
\* sent it nothing.
C30_Witness ==
    /\ pass.kind = "reconcile" /\ pass.stage = "synced"
    /\ \E i \in DOMAIN pass.visits :
          /\ pass.visits[i].key \notin synced
          /\ pass.visits[i].highWaterMark > StartedTime
          /\ pass.visits[i].filesChanged = <<>>
          /\ pass.visits[i].decision = "noUpdate"
          /\ \A c \in Range(Calls) : CallKey(c) # pass.visits[i].key
    /\ monitors[pass.name].sources # EmptyMap

\* The result of the updater call a pass made for a container, "" when it
\* made none.
CallResult(trace, k) ==
    IF \E c \in Range(UpdaterCalls(trace)) : CallKey(c) = k
    THEN (CHOOSE c \in Range(UpdaterCalls(trace)) : CallKey(c) = k).result
    ELSE ""

\* The visit ended in a failure of its container.
FailedVisit(trace, v) ==
    \/ v.decision \in {"planFailed", "crashLoop"}
    \/ v.decision = "applied" /\ CallResult(trace, v.key) = "error"

\* The reason of the failure a visit ended in.
FailureReason(trace, v) ==
    IF v.decision = "planFailed" THEN "UpdateStopped"
    ELSE IF v.decision = "crashLoop" THEN "CrashLoopBackOff"
    ELSE "UpdateFailed"

\* C31: a visit that ends in a failure (plan failure, CrashLoopBackOff, an
\* updater error other than a RunStepFailure) leaves the container's
\* lastFileTimeSynced as it was and stores the failure's reason and message
\* with failedLowWaterMark the oldest time of the container's pending files;
\* a visit whose update is applied sets lastFileTimeSynced to the newest
\* time of the pending files.
C31_FailureMemo ==
    [][\A n \in LUNames :
          (pass'.kind = "reconcile" /\ pass'.name = n)
          => \A i \in DOMAIN pass'.visits :
                LET v == pass'.visits[i]
                    after == monitors'[n].containers
                IN
                /\ FailedVisit(pass'.trace, v)
                   => /\ v.entries # {}
                      /\ after[v.key].lastFileTimeSynced = SyncedBefore(n, v.key)
                      /\ after[v.key].failedReason = FailureReason(pass'.trace, v)
                      /\ pass'.status.failed # Nil
                      /\ after[v.key].failedReason = pass'.status.failed.reason
                      /\ after[v.key].failedMessage = pass'.status.failed.message
                      /\ after[v.key].failedLowWaterMark = MinTime({e[2] : e \in v.entries})
                /\ (v.decision = "applied" /\ ~FailedVisit(pass'.trace, v))
                   => /\ v.entries # {}
                      /\ after[v.key].lastFileTimeSynced = MaxTimeOf({e[2] : e \in v.entries})
                      /\ after[v.key].failedReason = ""]_vars

\* A container failed on two pending files of different times: the memo has
\* the older time and the synced time was not set.
C31_Witness ==
    /\ pass.kind = "reconcile" /\ pass.stage = "synced"
    /\ \E i \in DOMAIN pass.visits :
          LET v == pass.visits[i]
              c == monitors[pass.name].containers[v.key]
          IN /\ FailedVisit(pass.trace, v)
             /\ Cardinality({e[2] : e \in v.entries}) = 2
             /\ c.failedLowWaterMark = MinTime({e[2] : e \in v.entries})
             /\ c.failedLowWaterMark < MaxTimeOf({e[2] : e \in v.entries})
             /\ c.lastFileTimeSynced = 0

\* C32: a visit that ends in a failure is the last of its pass: the pass
\* has status.failed set and status.containers empty, every updater call of
\* the pass is for that container or one visited before it, and the
\* containers updated before it keep the synced time the pass gave them.
C32_FatalEndsPass ==
    pass.kind = "reconcile" =>
        \A i \in DOMAIN pass.visits :
            FailedVisit(pass.trace, pass.visits[i])
            => /\ i = Len(pass.visits)
               /\ pass.status.failed # Nil
               /\ pass.status.failed.reason = FailureReason(pass.trace, pass.visits[i])
               /\ pass.status.containers = <<>>
               /\ liveUpdates[pass.name].status = pass.status
               /\ \A c \in Range(Calls) :
                     \E j \in 1..i : pass.visits[j].key = CallKey(c)
               /\ \A j \in 1..(i - 1) :
                     pass.visits[j].decision = "applied"
                     => /\ monitors[pass.name].containers[pass.visits[j].key].lastFileTimeSynced
                              = MaxTimeOf({e[2] : e \in pass.visits[j].entries})
                        /\ monitors[pass.name].containers[pass.visits[j].key].failedReason = ""

\* The update of the first of two running containers failed: the second,
\* with the same pending files, was not visited.
C32_Witness ==
    /\ pass.kind = "reconcile" /\ pass.stage = "synced"
    /\ Len(discovery.status.pods) = 2
    /\ Len(pass.visits) = 1
    /\ FailedVisit(pass.trace, pass.visits[1])
    /\ Len(Calls) = 1
    /\ pass.status.failed # Nil
    /\ liveUpdates[pass.name].status.containers = <<>>
    /\ Cardinality(DOMAIN monitors[pass.name].containers) = 1

\* A container that starts, runs or crash-loops, files inside and outside the
\* stop paths, both update modes and the trigger queue.
PrecedencePodLists ==
    {<<RunningPod("p1", "c1")>>, <<StartingPod("p1")>>, <<CrashingPod("p1", "c1")>>}

NextPrecedence ==
    \/ \E n \in LUNames : Reconcile(n)
    \/ \E t \in Times, f \in SyncedFiles : FileEvent("fw1", t, f)
    \/ \E pods \in PrecedencePodLists : Discover(pods)
    \/ \E n \in LUNames, mode \in UpdateModes : SetUpdateMode(n, mode)
    \/ \E names \in TriggerQueueData : WriteTriggerQueue(names)

SpecPrecedence == Init /\ [][NextPrecedence]_vars

\* The planner forbids the update of these files.
PlanFatal(spec, files) ==
    \E f \in Range(files) : ~MatchesSync(spec.syncs, f) \/ f \in spec.stopPaths

\* The waiting reason the status lists for the container, "" when it lists
\* the container as not waiting, "absent" when it does not list it.
ListedWaiting(status, k) ==
    IF \E j \in DOMAIN status.containers :
           /\ status.containers[j].containerID = k.containerID
           /\ status.containers[j].podName = k.podName
    THEN LET e == status.containers[CHOOSE j \in DOMAIN status.containers :
                      /\ status.containers[j].containerID = k.containerID
                      /\ status.containers[j].podName = k.podName]
         IN IF e.waiting = Nil THEN "" ELSE e.waiting.reason
    ELSE "absent"

\* C33: for a visited container that is not terminated and has pending
\* files, a planner failure decides first; otherwise CrashLoopBackOff fails
\* the container, waiting or not; otherwise a container that is not running
\* or has no ID is listed as ContainerWaiting, and otherwise a live update
\* waiting on its trigger lists it as Trigger; only otherwise is it updated.
C33_DecisionPrecedence ==
    pass.kind = "reconcile" =>
        \A i \in DOMAIN pass.visits :
            LET v == pass.visits[i]
                lu == liveUpdates[pass.name]
                manualWait == lu.annotations.updateMode = "manual" /\ ~InTriggerQueue(pass.name)
            IN (v.decision # "terminated" /\ v.filesChanged # <<>>)
               => IF PlanFatal(lu.spec, v.filesChanged)
                  THEN /\ v.decision = "planFailed"
                       /\ pass.status.failed.reason = "UpdateStopped"
                  ELSE IF v.container.state.waitingReason = "CrashLoopBackOff"
                  THEN /\ v.decision = "crashLoop"
                       /\ pass.status.failed.reason = "CrashLoopBackOff"
                  ELSE IF ~v.container.state.running \/ v.container.id = ""
                  THEN /\ v.decision = "waiting"
                       /\ pass.status.failed = Nil
                          => ListedWaiting(pass.status, v.key) = "ContainerWaiting"
                  ELSE IF manualWait
                  THEN /\ v.decision = "waiting"
                       /\ pass.status.failed = Nil
                          => ListedWaiting(pass.status, v.key) = "Trigger"
                  ELSE /\ v.decision = "applied"
                       /\ \E c \in Range(Calls) : CallKey(c) = v.key

\* In manual mode without a trigger, a crash-looping container with a
\* pending file that the plan can sync was failed with CrashLoopBackOff.
C33_Witness ==
    /\ pass.kind = "reconcile" /\ pass.stage = "synced"
    /\ liveUpdates[pass.name].annotations.updateMode = "manual"
    /\ ~InTriggerQueue(pass.name)
    /\ Len(pass.visits) = 1
    /\ pass.visits[1].container.state.waitingReason = "CrashLoopBackOff"
    /\ pass.visits[1].filesChanged = <<MainGo>>
    /\ pass.visits[1].decision = "crashLoop"
    /\ pass.status.failed # Nil
    /\ Calls = <<>>

\* A FileWatch reports one more event, with any time.
FileEventUnordered(fwn, t, f) ==
    /\ fileWatches[fwn] # Absent
    /\ EventCount < MaxEvents
    /\ fileWatches' = [fileWatches EXCEPT
                         ![fwn].status.fileEvents = Append(@, [time |-> t, seenFiles |-> {f}])]
    /\ pass' = Idle
    /\ synced' = {}
    /\ UNCHANGED <<liveUpdates, imageMaps, discovery, apply, service, triggerQueue, clock,
                   monitors, everSynced>>
    /\ UNCHANGED sideVars

\* File events in any order of their times, and image builds.
NextIngest ==
    \/ \E n \in LUNames : Reconcile(n)
    \/ \E t \in Times, f \in SyncedFiles : FileEventUnordered("fw1", t, f)
    \/ \E t \in Times : ImageBuild(t)

SpecIngest == Init /\ [][NextIngest]_vars

\* The monitor source of a FileWatch, a new one when the monitor has none.
SourceOf(m, fwn) ==
    IF m = Nil THEN NewMonitorSource
    ELSE IF fwn \in DOMAIN m.sources THEN m.sources[fwn] ELSE NewMonitorSource

\* The times of the events of a FileWatch that saw the file and are not
\* older than the build start.
ConsumedTimes(fwn, f, buildStartTime) ==
    {e.time : e \in {x \in Range(EventsOf(fwn)) :
                        f \in x.seenFiles /\ ~(buildStartTime # 0 /\ buildStartTime > x.time)}}

\* C34: a pass never lowers the recorded mod time of a path that stays in
\* the source, and replaces it only by a later time; after a pass that
\* consumed the FileWatch's events, every recorded path has the latest time
\* of the events that saw it and were not skipped, and every path seen by
\* such an event is recorded.
C34_ModTimeMonotone ==
    [][\A n \in LUNames :
          (pass'.kind = "reconcile" /\ pass'.name = n /\ monitors'[n] # Nil)
          => LET old == SourceOf(monitors[n], "fw1")
                 new == SourceOf(monitors'[n], "fw1")
                 b == imageMaps[ImageMapName].status.buildStartTime
             IN /\ \A f \in DOMAIN old.modTimeByPath \cap DOMAIN new.modTimeByPath :
                      new.modTimeByPath[f] >= old.modTimeByPath[f]
                /\ (EventsOf("fw1") # <<>> /\ new.lastFileEvent # old.lastFileEvent)
                   => /\ \A f \in DOMAIN new.modTimeByPath :
                            /\ ConsumedTimes("fw1", f, b) # {}
                            /\ new.modTimeByPath[f] = MaxTimeOf(ConsumedTimes("fw1", f, b))
                      /\ \A f \in Files :
                            ConsumedTimes("fw1", f, b) # {} => f \in DOMAIN new.modTimeByPath]_vars

\* A pass consumed two events that saw the same file, the later one first,
\* and recorded the later time.
C34_Witness ==
    /\ pass.kind = "reconcile" /\ pass.stage = "synced"
    /\ Len(EventsOf("fw1")) = 2
    /\ EventsOf("fw1")[1].seenFiles = {MainGo}
    /\ EventsOf("fw1")[2].seenFiles = {MainGo}
    /\ EventsOf("fw1")[1].time > EventsOf("fw1")[2].time
    /\ monitors[pass.name] # Nil
    /\ SourceOf(monitors[pass.name], "fw1").lastFileEvent = EventsOf("fw1")[2]
    /\ MainGo \in DOMAIN SourceOf(monitors[pass.name], "fw1").modTimeByPath
    /\ SourceOf(monitors[pass.name], "fw1").modTimeByPath[MainGo] = EventsOf("fw1")[1].time

\* Containers that start, run, go away and come back.
ContainerPodLists ==
    {<<>>, <<RunningPod("p1", "c1")>>, <<StartingPod("p1")>>,
     <<RunningPod("p2", "c2")>>, <<RunningPod("p1", "c1"), RunningPod("p2", "c2")>>}

NextContainers ==
    \/ \E n \in LUNames : ReconcileRemembering(n)
    \/ \E t \in Times : FileEvent("fw1", t, MainGo)
    \/ \E pods \in ContainerPodLists : Discover(pods)

SpecContainers == Init /\ [][NextContainers]_vars

\* The non-empty container IDs of the selected containers.
SelectedIDs(pods) == {k.containerID : k \in SelectedKeys(pods)} \ {""}

\* C35: in a pass that reaches maybeSync, every container monitor that the
\* walk after the GC step did not write has a non-empty container ID of a
\* selected container; a monitor whose container is not selected is dropped;
\* and every visited container starts from the synced time of the monitor
\* it had before the pass, or from the start time when it had none or none
\* with a synced time.
C35_ContainerGC ==
    [][\A n \in LUNames :
          (pass'.kind = "reconcile" /\ pass'.name = n /\ pass'.stage = "synced")
          => LET ids == SelectedIDs(discovery.status.pods)
                 visited == VisitedKeys(pass'.visits)
                 old == IF monitors[n] = Nil THEN EmptyMap ELSE monitors[n].containers
             IN /\ \A k \in DOMAIN monitors'[n].containers \ visited :
                      /\ k.containerID # ""
                      /\ k.containerID \in ids
                      /\ k \in DOMAIN old
                /\ \A k \in DOMAIN old :
                      k.containerID \notin ids
                      => \/ k \notin DOMAIN monitors'[n].containers
                         \/ /\ k \in visited
                            /\ monitors'[n].containers[k].lastFileTimeSynced = 0
                /\ \A i \in DOMAIN pass'.visits :
                      pass'.visits[i].highWaterMark =
                          IF pass'.visits[i].key.containerID \in ids
                             /\ SyncedBefore(n, pass'.visits[i].key) # 0
                          THEN SyncedBefore(n, pass'.visits[i].key)
                          ELSE StartedTime]_vars

\* A container was updated and its pod went away: the pass after that left
\* no container monitor.
C35_Witness ==
    /\ pass.kind = "reconcile" /\ pass.stage = "synced"
    /\ discovery.status.pods = <<>>
    /\ everSynced # EmptyMap
    /\ monitors[pass.name] # Nil
    /\ monitors[pass.name].containers = EmptyMap
    /\ "fw1" \in DOMAIN monitors[pass.name].sources

\* ------------------------------------------------------- enqueueTriggerQueue

\* A handler that does not look at the ConfigMap's name.
enqueueTriggerQueueAnyName(cm, ms) ==
    {name \in DOMAIN ms :
        IF ms[name] = Nil THEN FALSE ELSE ms[name].manifestName \in cm.data}

\* The LiveUpdates to reconcile for a write of a ConfigMap: those with a
\* monitor whose manifest is named in the trigger queue.
enqueueTriggerQueue(cm, ms) ==
    IF cm.name # TriggerQueueName THEN {}
    ELSE {name \in DOMAIN ms :
            IF ms[name] = Nil THEN FALSE ELSE ms[name].manifestName \in cm.data}

\* The orders in which the range over r.monitors can append the requests.
RequestOrders(names) ==
    {q \in [1..Cardinality(names) -> names] : Range(q) = names}

Request(name) == [type |-> "Request", name |-> name]

Manifests == {ManifestName, "be"}
ConfigMapNames == {TriggerQueueName, "other-config"}
QueueData == SUBSET Manifests

\* The watch handler runs enqueueTriggerQueue for a written ConfigMap, under
\* the mutex; the requests it returns are the trace of the pass.
EnqueueTriggerQueue(cmName, data) ==
    /\ mu = ""
    /\ cmName = TriggerQueueName
       => IF triggerQueue = Absent THEN FALSE ELSE data = triggerQueue.data
    /\ \E q \in RequestOrders(enqueueTriggerQueue([name |-> cmName, data |-> data], monitors)) :
          pass' = [Idle EXCEPT !.kind = "enqueue", !.name = cmName, !.stage = "enqueued",
                               !.trace = [i \in DOMAIN q |-> Request(q[i])]]
    /\ UNCHANGED <<liveUpdates, fileWatches, imageMaps, discovery, apply, service, triggerQueue,
                   clock, monitors, synced, everSynced>>
    /\ UNCHANGED sideVars

\* The manifest annotation of the LiveUpdate is set.
SetManifest(name, manifest) ==
    /\ liveUpdates[name] # Absent
    /\ liveUpdates[name].annotations.manifest # manifest
    /\ liveUpdates' = [liveUpdates EXCEPT ![name].annotations.manifest = manifest]
    /\ pass' = Idle
    /\ UNCHANGED <<fileWatches, imageMaps, discovery, apply, service, triggerQueue, clock,
                   monitors, synced, everSynced>>
    /\ UNCHANGED sideVars

\* Two LiveUpdates with manifests of their own, the trigger queue and another
\* ConfigMap.
NextEnqueue ==
    \/ \E n \in TwoNames : Reconcile(n)
    \/ \E n \in TwoNames, m \in Manifests : SetManifest(n, m)
    \/ \E names \in QueueData : WriteTriggerQueue(names)
    \/ \E cmName \in ConfigMapNames, data \in QueueData : EnqueueTriggerQueue(cmName, data)

SpecEnqueue == InitNames(TwoNames) /\ [][NextEnqueue]_vars

\* The names of the requests the handler returned.
Requested == {pass.trace[i].name : i \in DOMAIN pass.trace}

\* C36: for a write of the ConfigMap trigger-queue the handler returns one
\* request for each LiveUpdate name that has a monitor whose manifest name
\* is in the queue, and no other; for a ConfigMap of another name it returns
\* none, and it never returns one for a name without a monitor.
C36_EnqueueTriggerQueue ==
    pass.kind = "enqueue" =>
        /\ pass.name = TriggerQueueName
           => /\ Requested = {n \in TwoNames :
                                IF monitors[n] = Nil THEN FALSE
                                ELSE monitors[n].manifestName \in triggerQueue.data}
              /\ Len(pass.trace) = Cardinality(Requested)
        /\ pass.name # TriggerQueueName => pass.trace = <<>>
        /\ \A n \in TwoNames : monitors[n] = Nil => n \notin Requested

\* The queue names the manifest of both LiveUpdates; only one of them has a
\* monitor, and only that one got a request.
C36_Witness ==
    /\ pass.kind = "enqueue" /\ pass.name = TriggerQueueName
    /\ monitors["lu"] # Nil
    /\ monitors["lu2"] = Nil
    /\ liveUpdates["lu2"].annotations.manifest \in triggerQueue.data
    /\ pass.trace = <<Request("lu")>>

\* Files under a sync, stop files and files under no sync, for one container.
NextPlan ==
    \/ \E n \in LUNames : Reconcile(n)
    \/ \E t \in Times, f \in Files : FileEvent("fw1", t, f)
    \/ \E pods \in RunningPodLists : Discover(pods)

SpecPlan == Init /\ [][NextPlan]_vars

IngestedPending(m, k) ==
    IF "fw1" \in DOMAIN m.sources
    THEN /\ EventsOf("fw1") # <<>>
         /\ m.sources["fw1"].lastFileEvent = EventsOf("fw1")[Len(EventsOf("fw1"))]
         /\ \E f \in DOMAIN m.sources["fw1"].modTimeByPath :
               m.sources["fw1"].modTimeByPath[f] > HighWaterMark(m.containers, k)
    ELSE FALSE

\* C38: when the last pass recorded ObjectNotFound, the monitor has consumed
\* the FileWatch's events and holds a file that is pending for the running
\* selected container, which has no failure memo, and every referenced
\* object exists again, the discovery with the status the monitor saw last,
\* the next Reconcile evaluates the live update and calls the updater or
\* reports a failure.
C38_ChangeKept ==
    [][\A n \in LUNames :
          (/\ pass'.kind = "reconcile" /\ pass'.name = n
           /\ faulty = ""
           /\ Live(liveUpdates[n])
           /\ ~Unmonitored(liveUpdates[n])
           /\ liveUpdates[n].spec = SpecOne
           /\ AllPresent(liveUpdates[n].spec)
           /\ liveUpdates[n].status.failed # Nil
           /\ liveUpdates[n].status.failed.reason = "ObjectNotFound"
           /\ monitors[n] # Nil
           /\ monitors[n].spec = liveUpdates[n].spec
           /\ discovery.status.pods = OneRunningPod
           /\ monitors[n].lastKubernetesDiscovery # Nil
           /\ monitors[n].lastKubernetesDiscovery.status = discovery.status
           /\ Memos(monitors[n], OneRunningPod) = {}
           /\ \A k \in SelectedKeys(OneRunningPod) : IngestedPending(monitors[n], k))
          => /\ pass'.stage = "synced"
             /\ \/ UpdaterCalls(pass'.trace) # <<>>
                \/ pass'.status.failed # Nil]_vars

\* The writes of the status stop failing; the pass that failed stays the
\* last pass.
StatusRecovers ==
    /\ faulty = StatusName
    /\ faulty' = ""
    /\ UNCHANGED <<liveUpdates, fileWatches, imageMaps, discovery, apply, service, triggerQueue,
                   clock, monitors, pass, synced, everSynced, mu, pc, collected>>

\* Status writes that fail, and recover with nothing else changed.
NextRewrite ==
    \/ \E n \in LUNames : Reconcile(n)
    \/ \E t \in Times : FileEvent("fw1", t, MainGo)
    \/ \E pods \in RunningPodLists : Discover(pods)
    \/ \E name \in StatusFaults : Fault(name)
    \/ StatusRecovers

SpecRewrite == Init /\ [][NextRewrite]_vars

\* C39 as stated: the Reconcile after a pass whose status write failed, with
\* no input changed, evaluates the live update again, calls no updater,
\* computes the status the failed write carried and writes it when the
\* write no longer fails.
C39_WriteRetry ==
    [][(/\ pass.kind = "reconcile" /\ pass.stage = "writeFailed"
        /\ pass'.kind = "reconcile" /\ pass'.name = pass.name
        /\ faulty' = faulty)
       => /\ monitors[pass.name].hasChangesToSync
          /\ pass'.stage \in {"synced", "writeFailed"}
          /\ UpdaterCalls(pass'.trace) = <<>>
          /\ pass'.status = pass.status
          /\ faulty = "" => /\ pass'.wrote
                            /\ liveUpdates'[pass.name].status = pass.status]_vars

\* Two FileWatches that see different files, in any order of their times.
NextInterleave ==
    \/ \E n \in LUNames : Reconcile(n)
    \/ \E t \in Times : FileEvent("fw1", t, MainGo)
    \/ \E t \in Times : FileEvent("fw2", t, StopTxt)
    \/ Discover(OneRunningPod)
    \/ \E n \in LUNames, spec \in SourceSpecs : SetSpec(n, spec)

SpecInterleave == Init /\ [][NextInterleave]_vars

\* The monitor source of a FileWatch as it was before the pass, a new one
\* when the pass replaced the monitor.
SourceBefore(n, fwn) ==
    IF monitors[n] = Nil THEN NewMonitorSource
    ELSE IF monitors[n].spec # liveUpdates[n].spec THEN NewMonitorSource
    ELSE SourceOf(monitors[n], fwn)

\* C40: in a pass that evaluates the live update with its container running
\* and selected, every path that the pass recorded in a source, with a time
\* after the start time, and that the GC left there, is sent to the updater
\* in that pass unless the pass ends failed.
C40_NoSkippedChange ==
    [][\A n \in LUNames :
          (/\ pass'.kind = "reconcile" /\ pass'.name = n /\ pass'.stage = "synced"
           /\ discovery.status.pods = OneRunningPod)
          => \A fwn \in FWNames :
                LET new == SourceOf(monitors'[n], fwn).modTimeByPath
                    old == SourceBefore(n, fwn).modTimeByPath
                IN \A f \in DOMAIN new :
                      (/\ new[f] > StartedTime
                       /\ IF f \in DOMAIN old THEN old[f] # new[f] ELSE TRUE)
                      => \/ pass'.status.failed # Nil
                         \/ \E c \in Range(UpdaterCalls(pass'.trace)) :
                               \E i \in DOMAIN c.paths : c.paths[i].localPath = f]_vars

====
